---- MODULE Spec2Model ----
(***************************************************************************)
(* Session registry of the backend: JwtImpl / RefreshStoreImpl             *)
(* (infra/security/jwt.py), the Redis list cache (infra/cache/redis.py),   *)
(* the Redis shared lock (infra/shared/shared_lock.py with the context     *)
(* manager of app/contracts/shared_lock.py) and the refresh / logout       *)
(* endpoints with their command handlers.                                  *)
(*                                                                         *)
(* Time is a clock of whole seconds: the JWT library writes iat and exp as *)
(* integer seconds, so two tokens with the same sub, typ, jti and second   *)
(* of issue are the same string (HS256 signs deterministically).           *)
(* Every await of the code is one step of a request; requests interleave   *)
(* at those steps.  The lock's own Redis commands are taken to be answered *)
(* (a Redis outage during release is left to the lease expiry).            *)
(***************************************************************************)
EXTENDS Integers, Sequences, FiniteSets, TLC

\* ----------------------------------------------------------------- bounds
\* last second of the clock
MaxTime == 2
\* logins (make_token calls) under Spec, and under SpecSessions
MaxLogins == 1
MaxSessions == 2
\* SecurityConfig.refresh_token_expire_seconds / access_token_expire_seconds
RefreshTTL == 2
AccessTTL == 1
\* cache_time of CacheMiddleware (60 s), scaled to the clock's bound
CacheTime == 1
\* savepoints open at a time on one connection
MaxSavepoints == 2
\* resets and bumps of the container's generation
MaxGeneration == 2
\* subscriptions made on the event bus
MaxHandlers == 3
\* instances a scoped dependency's factory makes
MaxInstances == 4

\* ------------------------------------------------------ program constants
\* rotate: self._lock(f"lock:{key}", timeout=15)
RotateLockTimeout == 15
\* RedisSharedLock.__init__: blocking_timeout = blocking * 2 with blocking=True
BlockingTimeout == 2
\* create_rules: lock("temp", timeout=20)
TempLockTimeout == 20
\* create_rules: cache.set("create_rules", "1", expire=30)
MarkerTTL == 30
\* _collect_keys: max_depth
CollectMaxDepth == 15
\* CacheMiddleware._epoch: the epoch is used modulo 1_000_000
EpochModulus == 1000000

Users == {"u1"}
Fingerprints == {"fp1", "fp2"}
\* requests, in the order they arrive
Procs == {1, 2}
\* the fingerprint the logins send
LoginFingerprints == {"fp1"}

NoJti == 0
NoTTL == -1
NoOwner == 0
\* "" or any string that is no JWT signed with the configured key
BadToken == [sub |-> "", typ |-> "bad", jti |-> NoJti, iat |-> 0]

VARIABLES
    now,        \* the clock, in seconds
    authList,   \* authList[u]: the Redis list auth:{u}, head first
    authTTL,    \* authTTL[u]: absolute expiry of the key auth:{u}, or NoTTL
    lockOwner,  \* lockOwner[u]: the request whose token is stored at lock:auth:{u}
    lockExpire, \* lockExpire[u]: absolute expiry of that lock key
    nextJti,    \* jtis minted so far + 1 (uuid4 never repeats)
    proc,       \* proc[p]: the request running in slot p
    known,      \* <<refresh token, fingerprint>> of every pair handed to a client
    req,        \* the request to a protected route and what the middleware did with it
    db,         \* the row of the user with her roles in the database, or NoUser
    epoch,      \* the value of the key cache:epoch, 0 while the key is absent
    commits,    \* transactions committed by command handlers so far
    rcache,     \* the read-through entries: [key, data, exp]
    cmd,        \* cmd[c]: the command in slot c
    qry,        \* qry[q]: the query in slot q
    kreq,       \* two requests to the query bus and the cache keys built for them
    temp,       \* the lock key "temp": owner, expire, lease (leases granted so far)
    marker,     \* the key create_rules: exp (absolute expiry), by (who set it)
    catalog,    \* the rows of the tables permission and permission_field
    worker,     \* worker[w]: the startup hook of worker w
    tm,         \* the transaction manager of one scope and its connection
    res,        \* a Result, the error handed to unwrap_or_raise, and what came of it
    qc,         \* a query/command bus: its registrations and the sends made on it
    di,         \* the dependency container and the Depends of the injection points
    ev,         \* the event bus: its subscriptions and the publications made on it
    doc,        \* a JSON body and the keys collected from it
    issued      \* the arguments of an issue_pair, the pair issued and its verification

\* the session registry, and everything else
sessions == <<now, authList, authTTL, lockOwner, lockExpire, nextJti, proc, known>>
bus == <<epoch, commits, rcache, cmd, qry>>

boot == <<temp, marker, catalog, worker>>

kit == <<tm, res, qc, di, ev, doc, issued>>

others == <<req, db, bus, kreq, boot, kit>>

vars == <<sessions, others>>

\* ------------------------------------------------------------ JwtImpl
\* exp = iat + ttl (_encode)
Exp(tok) == tok.iat + (IF tok.typ = "refresh" THEN RefreshTTL ELSE AccessTTL)

\* _encode as called for the refresh token: sub, typ, iat, exp, jti
EncodeRefresh(sub, jti, t) == [sub |-> sub, typ |-> "refresh", jti |-> jti, iat |-> t]

\* _encode as called for the access token: iss lands in the jti parameter,
\* and iss is None here, so the access token carries no jti
EncodeAccess(sub, t) == [sub |-> sub, typ |-> "access", jti |-> NoJti, iat |-> t]

\* issue_pair(sub, jti=jti) at second t
issue_pair(sub, jti, t) ==
    [access_token |-> EncodeAccess(sub, t),
     refresh_token |-> EncodeRefresh(sub, jti, t),
     expires_in |-> RefreshTTL]

\* verify: the signature checks and exp is in the future
verify(tok, t) == tok # BadToken /\ t < Exp(tok)

\* a check of the signature and the expiry that accepts either typ
VerifiedAnyTyp(tok, t) == verify(tok, t)

\* _get_verified_claims: verify(...).and_then(typ == "refresh").unwrap() does not raise
_get_verified_claims(tok, t) == verify(tok, t) /\ tok.typ = "refresh"

\* a digest of the token alone
Sha256NoFp(fp, tok) == <<"", tok>>

\* sha256(f"{fingerprint}:{token}").hexdigest(), collision free
Sha256(fp, tok) == <<fp, tok>>

\* _get_hashed_pair(claims, fingerprint, token): jti:hash, or the bare hash without jti
_get_hashed_pair(claims, fp, tok) ==
    IF claims.jti = NoJti THEN <<NoJti, Sha256(fp, tok)>>
    ELSE <<claims.jti, Sha256(fp, tok)>>

\* ------------------------------------------------------------ RedisCache
\* SET instead of LPUSH: the value replaces the list
LPushOver(l, v) == <<v>>

\* LPUSH key value
LPush(l, v) == <<v>> \o l

\* an LREM that removes nothing
LRemNone(l, v) == l

\* LREM key 0 value: every occurrence
LRem(l, v) == SelectSeq(l, LAMBDA x : x # v)

InList(l, v) == \E i \in 1..Len(l) : l[i] = v

\* set_list(key, value, expire): LPUSH, then EXPIRE when expire is truthy
set_list(u, v, expire) ==
    /\ authList' = [authList EXCEPT ![u] = LPush(@, v)]
    /\ authTTL' = [authTTL EXCEPT ![u] = IF expire # 0 THEN now + expire ELSE @]

\* discard(key, value): LREM; Redis drops a list key that becomes empty
discard(u, v) ==
    /\ authList' = [authList EXCEPT ![u] = LRem(@, v)]
    /\ authTTL' = [authTTL EXCEPT ![u] = IF LRem(authList[u], v) = <<>> THEN NoTTL ELSE @]

\* delete(key)
delete(u) ==
    /\ authList' = [authList EXCEPT ![u] = <<>>]
    /\ authTTL' = [authTTL EXCEPT ![u] = NoTTL]


\* ------------------------------------- requests to the protected routes
\* Source.QUERY and Source.JSON, and the names a request or a grant may carry
KeySources == {"query", "json"}
Keys == {"email", "name"}

\* Permission.deny_fields / allow_fields: Mapping[Source, frozenset[str]], a
\* source may be absent
FieldMaps == UNION {[D -> SUBSET Keys] : D \in SUBSET KeySources}
NoFields == [src \in {} |-> {}]

\* e-mail addresses as strings: a spelling is upper or lower case
NoEmail == [name |-> "", upper |-> FALSE]

\* str.lower()
Lower(e) == [e EXCEPT !.upper = FALSE]

\* the roles of the user row, and the row itself (NoUser: no such row)
Viewer == [name |-> "viewer", is_superuser |-> FALSE]
Admin == [name |-> "admin", is_superuser |-> TRUE]
RoleSets == SUBSET {Viewer, Admin}
NoUser == [id |-> "", email |-> NoEmail, roles |-> {}]
DbUsers == {NoUser} \cup [id : Users, email : {[name |-> "a", upper |-> FALSE]}, roles : RoleSets]

\* the row CreateUser writes: no role yet
Registered == [id |-> "u1", email |-> [name |-> "a", upper |-> FALSE], roles |-> {}]

\* the row of mv_user_permissions for (user, permission key), or NoPerm
NoPerm == [scope |-> "none", deny_fields |-> NoFields, allow_fields |-> NoFields]

\* the routes behind the middleware: /users/me carries no rule; the rules of
\* the others name check_scope and check_fields
Me == [rule |-> FALSE, check_scope |-> "default", check_fields |-> "allow_all"]
Detail == [rule |-> TRUE, check_scope |-> "by_user_id", check_fields |-> "allow_all"]
List == [rule |-> TRUE, check_scope |-> "by_user_email", check_fields |-> "denylist"]
Update == [rule |-> TRUE, check_scope |-> "by_user_id", check_fields |-> "denylist"]
Listed == [rule |-> TRUE, check_scope |-> "default", check_fields |-> "allowlist"]
Routes == {Me, Detail, List, Update, Listed}

\* no request to a protected route yet: pc, the response, why, what the
\* middleware has read: the token, the request, the user row, the permission,
\* and did: the checks it has made, in the order it made them
NoRequest == [route |-> Me, path_user |-> "", query |-> {}, email |-> NoEmail, json |-> {}]
NoReq == [pc |-> "idle", resp |-> 0, reason |-> "none", tok |-> BadToken,
          request |-> NoRequest, user |-> NoUser, perm |-> NoPerm, did |-> <<>>]

\* ----------------------------------------------- requests to /public/auth
\* a request: op and pc, the arguments fp and tok of rotate / revoke, held (the
\* Lock object has a token), t0 (when acquire began),
\* newTok (the refresh token of result), exc (what the block raised), and the
\* response: resp (HTTP status, 0 for none), status (logout body), cookie;
\* conc: a rotate of the same session was under way when this one arrived
Idle == [op |-> "none", pc |-> "idle", fp |-> "fp1", tok |-> BadToken, held |-> FALSE,
         t0 |-> 0, newTok |-> BadToken, exc |-> "none", resp |-> 0,
         status |-> FALSE, cookie |-> "none", conc |-> FALSE]

\* ------------------------------------------- the command and query buses
\* the commands and the queries in flight
Cmds == {1, 2}
Qrys == {1, 2}

\* a command: via (command_bus(...) or command_bus.send_unwrapped(...)), pc,
\* exc (what ended it), ver (the commit of its handler, 0 for none), bumps (its
\* increments of cache:epoch) and bumped (the epoch its increment returned)
IdleCmd == [via |-> "none", pc |-> "idle", exc |-> "none", ver |-> 0, bumps |-> 0,
            bumped |-> 0]

\* a query: pc, key (of the entry it reads and writes), floor (the latest
\* commit whose epoch bump had completed when the query began), data (the commit
\* its response reflects), hit (the response came from the cache) and truthy
IdleQry == [pc |-> "idle", key |-> 0, floor |-> 0, data |-> 0, hit |-> FALSE,
            truthy |-> TRUE]

\* -------------------------------------------------- cache_request_key_builder
\* what a request to the query bus carries: method, path, the query string as
\* the pairs in the order they were sent (names distinct: dict(query_params)),
\* the user id or "" without a user, headers, body, request id
KeyRequests(headers, bodies, ids) ==
    LET items == Keys \X {"x", "y"}
    IN [method : {"GET"}, path : {"/users", "/rbac/roles"},
        query : {<<>>} \cup {<<i>> : i \in items}
                \cup {q \in items \X items : q[1][1] # q[2][1]},
        user : {"", "u1"}, headers : headers, body : bodies, request_id : ids]

\* the values of cache:epoch the two requests are served under
Epochs == {0, 1, EpochModulus}

\* no request yet
NoKeys == [pc |-> "none", a |-> <<>>, b |-> <<>>, ea |-> 0, eb |-> 0, ka |-> "",
           kb |-> ""]

\* two requests, their keys not built yet
KeyInputs ==
    [pc : {"sent"}, a : KeyRequests({"h1"}, {""}, {"r1"}),
     b : KeyRequests({"h1", "h2"}, {"", "{}"}, {"r1", "r2"}),
     ea : {0, 1}, eb : Epochs, ka : {""}, kb : {""}]

\* requests with one query parameter at most: values are what the caller
\* sends, users the ids of the callers ("" without a user)
Callers(values, users) ==
    [method : {"GET"}, path : {"/users", "/users/me"},
     query : {<<>>} \cup {<<i>> : i \in Keys \X values},
     user : users, headers : {"h1"}, body : {""}, request_id : {"r1"}]

\* a request of user u1 and a request of u1, of u2 or of nobody
CallerInputs ==
    [pc : {"sent"}, a : Callers({"x"}, {"u1"}),
     b : Callers({"x", "x y", "xu1"}, {"", "u1", "u2"}),
     ea : {0}, eb : {0, 1}, ka : {""}, kb : {""}]

\* ------------------------------------------------------------ create_rules
\* the workers that run the startup hook
Workers == {1, 2}

\* the rules of the routes: the permission key and the declared fields as
\* (src, name) in the order the hook lists them
Rules ==
    <<[key |-> "users:read:list", fields |-> <<<<"query", "email">>, <<"query", "name">>>>],
      [key |-> "users:read:detail", fields |-> <<>>],
      [key |-> "users:update:update", fields |-> <<<<"json", "email">>>>]>>

\* a worker's hook: pc, t0 (when acquire began), held (its Lock object has a
\* token), lease (the lease it got, 0 for none), ran (it executed _create),
\* during (the lease of temp that was running when it did, 0 for none), beside
\* (the marker of another worker was present when it did), exc
IdleWorker == [pc |-> "idle", t0 |-> 0, held |-> FALSE, lease |-> 0, ran |-> FALSE,
               during |-> 0, beside |-> FALSE, exc |-> "none"]

\* ------------------------------------------------------------ TransactionManagerImpl
\* the isolation levels a caller may ask for; NoLevel is isolation_level=None
NoLevel == "none"
Levels == {NoLevel, "serializable", "repeatable read", "read committed"}

\* no call of with_transaction was made in this scope
NoCall == [made |-> FALSE, iso |-> NoLevel, nested |-> FALSE, was |-> 0, spWas |-> 0,
           openedWas |-> FALSE]

\* TransactionManagerImpl(conn) over a connection just made by the factory.
\* pc: new (constructed), open (__aenter__ returned), exited (__aexit__
\* returned or raised); outer: the outer transactions begun on the connection
\* and not ended; sp: its savepoints; opened: _is_tx_opened; level: the
\* isolation level set; call: the last with_transaction of the scope and what
\* it found; warned: that call emitted the warning; exc: what the last call
\* raised; raised: the block of the scope raised; ended: what __aexit__ called
\* on the connection; released: conn.__aexit__ ran
NewManager == [pc |-> "new", outer |-> 0, sp |-> 0, opened |-> FALSE, level |-> NoLevel,
               call |-> NoCall, warned |-> FALSE, exc |-> "none", raised |-> FALSE,
               ended |-> "none", released |-> FALSE]

\* ------------------------------------------------------------ ResultImpl
\* Python's None
None == "None"
\* what a Result may carry as data: None, values that are false in a
\* condition, and values that are true in one
Falsy == {"0", "''", "False", "[]"}
Datas == {None} \cup Falsy \cup {"user"}
\* errors a Result may carry, and errors handed to unwrap_or_raise
AppErrors == {"AppError: Empty result", "NotFoundError"}
Raised == {"UnAuthorizedError", "ForbiddenError", "ConflictError"}

\* ResultImpl(data, err)
ResultImpl(data, err) == [data |-> data, err |-> err]

\* nothing was applied yet
NoOutcome == [returned |-> None, raised |-> None, cause |-> None, did |-> FALSE]

\* no Result under test
NoResult == [r |-> ResultImpl(None, None), given |-> None, out |-> NoOutcome]

\* ------------------------------------------------------------ QCBus
\* message classes: CreateUserV2 is a subclass of CreateUser
MessageTypes == {"CreateUser", "CreateUserV2", "DeleteUser"}
Base(t) == IF t = "CreateUserV2" THEN "CreateUser" ELSE None
\* what register takes: a handler, or a factory that makes it
HandlerLikes == [handler : {"h1", "h2"}, factory : BOOLEAN]
\* nothing under a key of _data
NoHandler == [handler |-> None, factory |-> FALSE]

\* no send was made yet: the type of the message, the way it was sent, reg
\* (what _data held under exactly that type), the handler invoked, the error
NoSend == [made |-> FALSE, type |-> None, via |-> None, reg |-> NoHandler, invoked |-> None,
           exc |-> None]

\* QCBus(): nothing registered
NewBus == [data |-> [t \in MessageTypes |-> NoHandler], last |-> NoSend]

\* ------------------------------------------------------------ DependencyContainer
\* the injection points (one Depends each), the key each asks for, and what
\* may be bound under a key: a value or a callable, named by what it yields
Points == {1, 2}
KeyOf(p) == IF p = 1 THEN "TransactionManager" ELSE "Authenticator"
DepKeys == {KeyOf(p) : p \in Points}
Providers == {"first", "second"}

\* Depends(dependency) made while the container's generation is g
Depends(g) == [gen |-> g, compiled |-> None, at |-> 0]

\* no resolution yet: the point, first (it had not resolved since the last
\* reset), gen (the generation then), binding (what the container held under
\* its key then), had (its compiled factory before), served (what the
\* resolution yielded), at (the generation in which the factory that served
\* it was compiled), exc
NoResolve == [made |-> FALSE, point |-> 0, first |-> FALSE, gen |-> 0, binding |-> None,
              had |-> None, served |-> None, at |-> 0, exc |-> None]

\* the calls of one injected coroutine under way at a time
Calls == {1, 2}

\* an injected coroutine with one parameter whose binding is the factory of
\* an async context manager. gen, compiled: _generation and
\* get_compiled_async of its Depends; made: the instances the factory has
\* made; first: the one made by the resolution that compiled; entered[i],
\* exited[i]: how often instance i was entered and exited; holds[c]: the
\* instance on the exit stack of call c (0: no call); raised: the call that
\* ended last raised
NewScope == [gen |-> 0, compiled |-> FALSE, made |-> 0, first |-> 0,
             entered |-> [i \in 1..MaxInstances + 1 |-> 0],
             exited |-> [i \in 1..MaxInstances + 1 |-> 0],
             holds |-> [c \in Calls |-> 0], raised |-> FALSE]

\* the container of a process just started, and the Depends of functions
\* decorated at import; pending: the points that have not resolved since the
\* last reset
NewContainer == [deps |-> [k \in DepKeys |-> None], generation |-> 0,
                 pts |-> [p \in Points |-> Depends(0)], pending |-> {}, last |-> NoResolve,
                 scope |-> NewScope]

\* ------------------------------------------------------------ EventBus
\* the classes of the events published, the key register_any subscribes
\* under, and the handlers
EventTypes == {"UserCreated", "UserDeleted"}
AnyEventMarker == "AnyEventMarker"
EventHandlers == {"audit", "mailer"}

\* no event was published yet: its type, typed and any (what _events held
\* under its type and under AnyEventMarker then), bad (the handlers that
\* raise on it), invoked (the handlers called, in order), exc (what publish
\* raised)
NoPublish == [made |-> FALSE, type |-> None, typed |-> <<>>, any |-> <<>>, bad |-> {},
              invoked |-> <<>>, exc |-> None]

\* EventBus(): no subscription
NewEvents == [events |-> [k \in EventTypes \cup {AnyEventMarker} |-> <<>>], last |-> NoPublish]

\* ------------------------------------------------------------ JSON bodies
\* a JSON value: a scalar, an object (items: its keys to their values) or an
\* array (items: its elements, by their index written as a string)
Scalar == [kind |-> "scalar"]
Objects(values) == {[kind |-> "object", items |-> f] :
                       f \in UNION {[D -> values] : D \in SUBSET Keys}}
Arrays(values) == {[kind |-> "array", items |-> f] :
                      f \in UNION {[D -> values] : D \in SUBSET {"0"}}}

\* the values inside a body, and the bodies: objects of objects and arrays
Inner == {Scalar} \cup Objects({Scalar}) \cup Arrays({Scalar} \cup Objects({Scalar}))
Bodies == Objects(Inner)

\* no body read yet: the body, the keys collected from it, exc, and whether a
\* grant that denies "email" in the JSON source lets the request pass
NoDoc == [body |-> [kind |-> "object", items |-> [k \in {} |-> Scalar]], keys |-> {},
          exc |-> None, passes |-> TRUE, done |-> FALSE]

\* ------------------------------------------------------------ token claims
\* nothing decoded
NoClaims == [sub |-> None, typ |-> None, iat |-> 0, exp |-> 0, jti |-> None, iss |-> None,
             aud |-> None]
NoVerdict == [exc |-> None, claims |-> NoClaims]

\* no pair issued: the arguments sub, jti, iss, aud of issue_pair and the
\* second of the call, pc, the payloads of the two tokens, expires_in, and
\* what verify(token, iss, aud) made of each token
NoPair == [sub |-> None, jti |-> None, iss |-> None, aud |-> None, at |-> 0, pc |-> "issue",
           access |-> NoClaims, refresh |-> NoClaims, expires_in |-> 0,
           access_verdict |-> NoVerdict, refresh_verdict |-> NoVerdict]

Start ==
    /\ now = 0
    /\ authList = [u \in Users |-> <<>>]
    /\ authTTL = [u \in Users |-> NoTTL]
    /\ lockOwner = [u \in Users |-> NoOwner]
    /\ lockExpire = [u \in Users |-> NoTTL]
    /\ nextJti = 1
    /\ proc = [p \in Procs |-> Idle]
    /\ known = {}
    /\ req = NoReq
    /\ db = Registered
    /\ epoch = 0
    /\ commits = 0
    /\ rcache = {}
    /\ cmd = [c \in Cmds |-> IdleCmd]
    /\ qry = [q \in Qrys |-> IdleQry]
    /\ temp = [owner |-> NoOwner, expire |-> 0, lease |-> 0]
    /\ marker = [exp |-> 0, by |-> {}]
    /\ catalog = [permission |-> <<>>, permission_field |-> <<>>]
    /\ worker = [w \in Workers |-> IdleWorker]
    /\ tm = NewManager
    /\ qc = NewBus
    /\ di = NewContainer
    /\ ev = NewEvents

\* the state after construction
Init == Start /\ kreq = NoKeys /\ res = NoResult /\ doc = NoDoc /\ issued = NoPair

\* d seconds pass; Redis drops the keys whose expiry is reached.
Pass(d) ==
    /\ now' = now + d
    /\ authList' = [u \in Users |->
                      IF authTTL[u] # NoTTL /\ authTTL[u] <= now + d THEN <<>> ELSE authList[u]]
    /\ authTTL' = [u \in Users |->
                      IF authTTL[u] # NoTTL /\ authTTL[u] <= now + d THEN NoTTL ELSE authTTL[u]]
    /\ lockOwner' = [u \in Users |->
                      IF lockExpire[u] # NoTTL /\ lockExpire[u] <= now + d THEN NoOwner
                      ELSE lockOwner[u]]
    /\ lockExpire' = [u \in Users |->
                      IF lockExpire[u] # NoTTL /\ lockExpire[u] <= now + d THEN NoTTL
                      ELSE lockExpire[u]]
    /\ UNCHANGED <<nextJti, proc, known, others>>

\* the clock ticks
Tick == now < MaxTime /\ Pass(1)

\* a holder outlives its lease: time passes until the lock key of u expires.
\* Every waiter has given up by then (BlockingTimeout < RotateLockTimeout).
LeaseRunsOut(u) ==
    /\ lockExpire[u] # NoTTL
    /\ lockExpire[u] > now
    /\ \A p \in Procs : proc[p].pc # "acquire"
    /\ Pass(lockExpire[u] - now)

\* RefreshStoreImpl.make_token(user_id, fingerprint), reached from a login with
\* valid credentials: one pipeline, no expire argument
make_token(u, fp) ==
    /\ LET pair == issue_pair(u, nextJti, now)
           hashed_pair == <<nextJti, Sha256(fp, pair.refresh_token)>>
       IN /\ set_list(u, hashed_pair, 0)
          /\ known' = known \cup {<<pair.refresh_token, fp>>}
    /\ nextJti' = nextJti + 1
    /\ UNCHANGED <<now, lockOwner, lockExpire, proc, others>>

\* ------------------------------------------------------- RedisSharedLock
\* Lock.do_acquire: SET name token NX PX timeout
LockFree(u) == lockOwner[u] = NoOwner

\* Lock.acquire gives up (returns False) once blocking_timeout has passed
GiveUp(p) == now - proc[p].t0 >= BlockingTimeout

\* Lock.release raises LockError when this Lock object never acquired, and
\* LockNotOwnedError when the key no longer carries its token
ReleaseRaises(p, u) == ~proc[p].held \/ lockOwner[u] # p

\* -------------------------------------------------------------- requests
InputTokens ==
    {k[1] : k \in known} \cup {EncodeAccess(k[1].sub, k[1].iat) : k \in known} \cup {BadToken}

\* where the endpoint takes the token from: the refresh cookie, an
\* Authorization: Bearer header, an Authorization header of another scheme
\* (no cookie), or neither
Sources == {"cookie", "bearer", "other", "none"}

InCall(p) == proc[p].pc \notin {"idle", "done"}

\* why _get_verified_claims raised: verify failed, or typ is not refresh
RejectReason(tok, t) == IF verify(tok, t) THEN "typ" ELSE "verify"

\* a rotate with the same arguments is under way
SameSession(p, fp, tok) ==
    \E q \in Procs \ {p} :
        InCall(q) /\ proc[q].op = "refresh" /\ proc[q].fp = fp /\ proc[q].tok = tok

\* requests arrive in slot order, within the clock's bound
Arrives(p) ==
    /\ proc[p].pc = "idle"
    /\ \A q \in Procs : q < p => proc[q].pc # "idle"
    /\ now <= MaxTime

\* refresh_endpoint up to the first await of rotate: token source, then
\* RefreshUserCommandHandler -> rotate -> _get_verified_claims
refresh_endpoint(p, fp, src, t) ==
    /\ Arrives(p)
    /\ LET tok == IF src \in {"cookie", "bearer"} THEN t ELSE BadToken
           call == [Idle EXCEPT !.op = "refresh"]
       IN proc' = IF src = "other"
                  THEN [proc EXCEPT ![p] = [call EXCEPT !.pc = "done", !.exc = "scheme",
                                                        !.resp = 401]]
                  ELSE IF ~_get_verified_claims(tok, now)
                  THEN [proc EXCEPT ![p] = [call EXCEPT !.pc = "done",
                                                        !.exc = RejectReason(tok, now),
                                                        !.resp = 401]]
                  ELSE [proc EXCEPT ![p] = [call EXCEPT !.pc = "acquire", !.fp = fp,
                                                        !.tok = tok, !.t0 = now,
                                                        !.conc = SameSession(p, fp, tok)]]
    /\ UNCHANGED <<now, authList, authTTL, lockOwner, lockExpire, nextJti, known, others>>

\* SharedLock.__aenter__ -> RedisSharedLock.acquire: the result of
\* Lock.acquire is dropped, so the block is entered either way
acquire(p) ==
    /\ proc[p].pc = "acquire"
    /\ LET u == proc[p].tok.sub
       IN \/ /\ LockFree(u)
             /\ lockOwner' = [lockOwner EXCEPT ![u] = p]
             /\ lockExpire' = [lockExpire EXCEPT ![u] = now + RotateLockTimeout]
             /\ proc' = [proc EXCEPT ![p].pc = "get_list", ![p].held = TRUE, ![p].t0 = 0]
          \/ /\ ~LockFree(u)
             /\ GiveUp(p)
             /\ proc' = [proc EXCEPT ![p].pc = "get_list", ![p].held = FALSE, ![p].t0 = 0]
             /\ UNCHANGED <<lockOwner, lockExpire>>
    /\ UNCHANGED <<now, authList, authTTL, nextJti, known, others>>

\* rotate: hashed_pair and the membership test over get_list(key)
RotGetList(p) ==
    /\ proc[p].pc = "get_list"
    /\ LET tok == proc[p].tok
           hashed_pair == _get_hashed_pair(tok, proc[p].fp, tok)
       IN proc' = [proc EXCEPT ![p].pc = IF InList(authList[tok.sub], hashed_pair)
                                         THEN "discard" ELSE "delete"]
    /\ UNCHANGED <<now, authList, authTTL, lockOwner, lockExpire, nextJti, known, others>>

\* rotate: not listed -> delete(key); return None
RotDelete(p) ==
    /\ proc[p].pc = "delete"
    /\ delete(proc[p].tok.sub)
    /\ proc' = [proc EXCEPT ![p].pc = "release"]
    /\ UNCHANGED <<now, lockOwner, lockExpire, nextJti, known, others>>

\* rotate: discard(key, hashed_pair)
RotDiscard(p) ==
    /\ proc[p].pc = "discard"
    /\ discard(proc[p].tok.sub, _get_hashed_pair(proc[p].tok, proc[p].fp, proc[p].tok))
    /\ proc' = [proc EXCEPT ![p].pc = "issue"]
    /\ UNCHANGED <<now, lockOwner, lockExpire, nextJti, known, others>>

\* rotate: result = issue_pair(claims.sub, jti=claims.jti or uuid4().hex)
RotIssue(p) ==
    /\ proc[p].pc = "issue"
    /\ LET tok == proc[p].tok
           jti == IF tok.jti # NoJti THEN tok.jti ELSE nextJti
           result == issue_pair(tok.sub, jti, now)
       IN /\ proc' = [proc EXCEPT ![p].pc = "set_list", ![p].newTok = result.refresh_token]
          /\ nextJti' = IF tok.jti # NoJti THEN nextJti ELSE nextJti + 1
    /\ UNCHANGED <<now, authList, authTTL, lockOwner, lockExpire, known, others>>

\* rotate: set_list(key, hashed pair of result.refresh_token, expire=result.expires_in)
RotSetList(p) ==
    /\ proc[p].pc = "set_list"
    /\ set_list(proc[p].tok.sub,
                _get_hashed_pair(proc[p].tok, proc[p].fp, proc[p].newTok),
                issue_pair(proc[p].tok.sub, proc[p].tok.jti, now).expires_in)
    /\ proc' = [proc EXCEPT ![p].pc = "release"]
    /\ UNCHANGED <<now, lockOwner, lockExpire, nextJti, known, others>>

\* RefreshUserCommandHandler: result.unwrap_or_raise(UnAuthorizedError), rendered
\* by exc_handlers: every Err is a 401
RefreshStatus(ok) == IF ok THEN 200 ELSE 401

\* an __aexit__ that skips release when the block raised
ReleaseKeepsOnExc(p, u) == proc[p].exc # "none" \/ ReleaseRaises(p, u)

\* __aexit__ leaves the lock key alone only when release raises
ReleaseKeeps(p, u) == ReleaseRaises(p, u)

\* SharedLock.__aexit__ -> release, then as_result, the handler and the response.
\* A cancellation passes through as_result (it catches Exception only) unless
\* release raises on top of it.
RotRelease(p) ==
    /\ proc[p].pc = "release"
    /\ LET u == proc[p].tok.sub
           raised == ReleaseRaises(p, u)
           cancelled == ~raised /\ proc[p].exc = "cancel"
           ok == ~raised /\ proc[p].exc = "none" /\ proc[p].newTok # BadToken
       IN /\ lockOwner' = IF ReleaseKeeps(p, u) THEN lockOwner
                          ELSE [lockOwner EXCEPT ![u] = NoOwner]
          /\ lockExpire' = IF ReleaseKeeps(p, u) THEN lockExpire
                           ELSE [lockExpire EXCEPT ![u] = NoTTL]
          /\ proc' = [proc EXCEPT ![p].pc = "done",
                                  ![p].exc = IF cancelled THEN "cancel"
                                             ELSE IF raised THEN "lock"
                                             ELSE IF ok THEN "none"
                                             ELSE IF proc[p].exc = "none" THEN "empty"
                                             ELSE proc[p].exc,
                                  ![p].resp = IF cancelled THEN 0 ELSE RefreshStatus(ok),
                                  ![p].cookie = IF ok THEN "set" ELSE "none"]
          /\ known' = IF ok THEN known \cup {<<proc[p].newTok, proc[p].fp>>} ELSE known
    /\ UNCHANGED <<now, authList, authTTL, nextJti, others>>

\* logout_endpoint up to the first await of revoke; LogoutUserCommandHandler
\* answers result.unwrap_or(default=False)
logout_endpoint(p, fp, src, t) ==
    /\ Arrives(p)
    /\ LET tok == IF src \in {"cookie", "bearer"} THEN t ELSE BadToken
           call == [Idle EXCEPT !.op = "logout"]
       IN proc' = IF src = "other"
                  THEN [proc EXCEPT ![p] = [call EXCEPT !.pc = "done", !.exc = "scheme",
                                                        !.resp = 401]]
                  ELSE IF ~_get_verified_claims(tok, now)
                  THEN [proc EXCEPT ![p] = [call EXCEPT !.pc = "done",
                                                        !.exc = RejectReason(tok, now),
                                                        !.resp = 200, !.cookie = "cleared"]]
                  ELSE [proc EXCEPT ![p] = [call EXCEPT !.pc = "v_get_list", !.fp = fp,
                                                        !.tok = tok]]
    /\ UNCHANGED <<now, authList, authTTL, lockOwner, lockExpire, nextJti, known, others>>

\* revoke: the membership test; not listed -> False
RevGetList(p) ==
    /\ proc[p].pc = "v_get_list"
    /\ LET tok == proc[p].tok
           hashed_pair == _get_hashed_pair(tok, proc[p].fp, tok)
       IN proc' = IF InList(authList[tok.sub], hashed_pair)
                  THEN [proc EXCEPT ![p].pc = "v_discard"]
                  ELSE [proc EXCEPT ![p].pc = "done", ![p].resp = 200,
                                    ![p].status = FALSE, ![p].cookie = "cleared"]
    /\ UNCHANGED <<now, authList, authTTL, lockOwner, lockExpire, nextJti, known, others>>

\* revoke: discard(key, hashed_pair); True
RevDiscard(p) ==
    /\ proc[p].pc = "v_discard"
    /\ discard(proc[p].tok.sub, _get_hashed_pair(proc[p].tok, proc[p].fp, proc[p].tok))
    /\ proc' = [proc EXCEPT ![p].pc = "done", ![p].resp = 200, ![p].status = TRUE,
                            ![p].cookie = "cleared"]
    /\ UNCHANGED <<now, lockOwner, lockExpire, nextJti, known, others>>

\* a cache command of rotate or revoke raises (connection error)
CacheError(p) ==
    /\ \/ /\ proc[p].pc \in {"get_list", "delete", "discard", "set_list"}
          /\ proc' = [proc EXCEPT ![p].pc = "release", ![p].exc = "error", ![p].t0 = 0]
       \/ /\ proc[p].pc \in {"v_get_list", "v_discard"}
          /\ proc' = [proc EXCEPT ![p].pc = "done", ![p].exc = "error", ![p].resp = 200,
                                  ![p].status = FALSE, ![p].cookie = "cleared"]
    /\ UNCHANGED <<now, authList, authTTL, lockOwner, lockExpire, nextJti, known, others>>

\* the request's task is cancelled while it awaits acquire, or while it awaits
\* the answer of a cache command that Redis has run (discard, set_list, the
\* discard of revoke); a cancellation before the command runs leaves the cache
\* and the lock as CacheError does
Cancel(p) ==
    /\ \/ /\ \/ proc[p].pc = "issue"
             \/ proc[p].pc = "release" /\ proc[p].exc = "none" /\ proc[p].newTok # BadToken
          /\ proc' = [proc EXCEPT ![p].pc = "release", ![p].exc = "cancel"]
       \/ /\ proc[p].pc = "acquire"
          /\ proc' = [proc EXCEPT ![p].pc = "done", ![p].exc = "cancel", ![p].t0 = 0]
    /\ UNCHANGED <<now, authList, authTTL, lockOwner, lockExpire, nextJti, known, others>>

\* revoke is cancelled while it awaits the answer of discard: no response
CancelRevoke(p) ==
    /\ proc[p].pc = "v_discard"
    /\ discard(proc[p].tok.sub, _get_hashed_pair(proc[p].tok, proc[p].fp, proc[p].tok))
    /\ proc' = [proc EXCEPT ![p].pc = "done", ![p].exc = "cancel"]
    /\ UNCHANGED <<now, lockOwner, lockExpire, nextJti, known, others>>

\* a login with valid credentials, within the clock's bound
Login(limit) ==
    /\ nextJti <= limit
    /\ now <= MaxTime
    /\ \E u \in Users, fp \in LoginFingerprints : make_token(u, fp)

Request ==
    \/ \E p \in Procs, fp \in Fingerprints, src \in Sources, t \in InputTokens :
          refresh_endpoint(p, fp, src, t)
    \/ \E p \in Procs, fp \in Fingerprints, src \in Sources, t \in InputTokens :
          logout_endpoint(p, fp, src, t)

Step ==
    \/ \E p \in Procs : acquire(p)
    \/ \E p \in Procs : RotGetList(p)
    \/ \E p \in Procs : RotDelete(p)
    \/ \E p \in Procs : RotDiscard(p)
    \/ \E p \in Procs : RotIssue(p)
    \/ \E p \in Procs : RotSetList(p)
    \/ \E p \in Procs : RotRelease(p)
    \/ \E p \in Procs : RevGetList(p)
    \/ \E p \in Procs : RevDiscard(p)

Fault ==
    \/ \E p \in Procs : CacheError(p)
    \/ \E p \in Procs : Cancel(p)
    \/ \E p \in Procs : CancelRevoke(p)
    \/ \E u \in Users : LeaseRunsOut(u)

\* one session, every fault
Next == Tick \/ Login(MaxLogins) \/ Request \/ Step \/ Fault

Spec == Init /\ [][Next]_vars

\* several sessions, no fault
NextSessions == Tick \/ Login(MaxSessions) \/ Request \/ Step

SpecSessions == Init /\ [][NextSessions]_vars

\* a flag that wants every role to be a superuser role
is_superuser_all(row) == row.roles # {} /\ \A role \in row.roles : role.is_superuser

\* ------------------------------------------------------ JWTAuthMiddleware
\* AuthenticatorImpl.authenticate: the AuthUser of a row
is_superuser(row) == \E role \in row.roles : role.is_superuser

\* authenticate_token: jwt.verify(...).and_then(typ == "access") is Ok
AccessClaims(tok, t) == verify(tok, t) /\ tok.typ = "access"

\* Context.request_query_keys / request_json_keys by source
request_keys(r, src) == IF src = "query" THEN r.query ELSE r.json

\* a deny list that is read for the query string alone
DenylistQueryOnly(p, r) ==
    \A src \in DOMAIN p.deny_fields \cap {"query"} :
        request_keys(r, src) \cap p.deny_fields[src] = {}

\* resolve_keys_allowed_denylist returns (raises nothing)
resolve_keys_allowed_denylist(p, r) ==
    \A src \in DOMAIN p.deny_fields :
        (request_keys(r, src) # {} /\ p.deny_fields[src] # {})
            => request_keys(r, src) \cap p.deny_fields[src] = {}

\* resolve_keys_allowed_allowlist returns (raises nothing)
resolve_keys_allowed_allowlist(p, r) ==
    \A src \in DOMAIN p.allow_fields :
        (request_keys(r, src) # {} /\ p.allow_fields[src] # {})
            => request_keys(r, src) \ p.allow_fields[src] = {}

\* rule.check_fields(permission, ctx) returns
check_fields(route, p, r) ==
    CASE route.check_fields = "denylist" -> resolve_keys_allowed_denylist(p, r)
      [] route.check_fields = "allowlist" -> resolve_keys_allowed_allowlist(p, r)
      [] OTHER -> TRUE

\* resolve_by_user_id: 200 stands for returning, 403 for raise_not_allowed
resolve_by_user_id(row, r, scope) ==
    IF scope = "own" /\ row.id # r.path_user THEN 403 ELSE 200

\* resolve_by_user_email: request_query_params["email"] raises KeyError when
\* the request carries no email parameter, and nothing handles a KeyError
resolve_by_user_email(row, r, scope) ==
    IF scope # "own" \/ row.email = NoEmail THEN (IF scope = "own" THEN 403 ELSE 200)
    ELSE IF "email" \notin r.query THEN 500
    ELSE IF Lower(row.email) # Lower(r.email) THEN 403
    ELSE 200

\* rule.check_scope(manager, ctx, permission.scope)
check_scope(route, row, r, scope) ==
    CASE route.check_scope = "by_user_id" -> resolve_by_user_id(row, r, scope)
      [] route.check_scope = "by_user_email" -> resolve_by_user_email(row, r, scope)
      [] OTHER -> 200

\* the requests a route can get: a path user_id where the route has one, query
\* parameters (email among them or not) and a JSON body
RequestsOf(route) ==
    LET paths == IF route.check_scope = "by_user_id" THEN {"u1", "u2"} ELSE {""}
        queries == IF route \in {List, Listed} THEN SUBSET Keys ELSE {{}}
        bodies == IF route \in {Update, Listed} THEN SUBSET Keys ELSE {{}}
    IN [route : {route}, path_user : paths, query : {q \in queries : "email" \notin q},
        email : {NoEmail}, json : bodies]
       \cup
       [route : {route}, path_user : paths, query : {q \in queries : "email" \in q},
        email : {[name |-> "a", upper |-> FALSE], [name |-> "a", upper |-> TRUE],
                 [name |-> "b", upper |-> FALSE]},
        json : bodies]

\* the rows the permission lookup of a route can find: the grant's field
\* lists are those the route's check_fields reads
PermsOf(route) ==
    {NoPerm} \cup
    [scope : {"own", "any"},
     deny_fields : IF route.check_fields = "denylist" THEN FieldMaps ELSE {NoFields},
     allow_fields : IF route.check_fields = "allowlist" THEN FieldMaps ELSE {NoFields}]

\* JWTAuthMiddleware.authenticate_request and authenticate_token up to the
\* await of authenticate_user: hdr is the Authorization header (absent, of
\* another scheme, or Bearer t)
authenticate_request(hdr, t, r) ==
    /\ req.pc = "idle"
    /\ now <= MaxTime
    /\ req' = IF hdr = "none"
              THEN [NoReq EXCEPT !.pc = "done", !.resp = 401, !.reason = "missing",
                                 !.did = <<"header">>]
              ELSE IF hdr = "other"
              THEN [NoReq EXCEPT !.pc = "done", !.resp = 401, !.reason = "scheme",
                                 !.did = <<"header">>]
              ELSE IF ~AccessClaims(t, now)
              THEN [NoReq EXCEPT !.pc = "done", !.resp = 401, !.reason = "token", !.tok = t,
                                 !.did = <<"header", "token">>]
              ELSE [NoReq EXCEPT !.pc = "user", !.tok = t, !.request = r,
                                 !.did = <<"header", "token">>]
    /\ UNCHANGED <<sessions, db, bus, kreq, boot, kit>>

\* a test of user.roles that never finds them empty
HasRolesAnyway(row) == FALSE

\* authenticate_token: not user.roles
no_roles(row) == row.roles = {}

\* an authenticate that takes the subject of the token for a user
authenticate_unread(user_id) ==
    [id |-> user_id, email |-> [name |-> "a", upper |-> FALSE], roles |-> {Viewer}]

\* AuthenticatorImpl.authenticate(manager, user_id=...): the row of the user
\* with that id and her roles, NoUser (an Err) when there is none
authenticate(user_id) == IF db.id = user_id THEN db ELSE NoUser

\* a lookup that finds a rule on every route
rule_on_every_route(route) == TRUE

\* authenticate_token: getattr(route_handler.fn, "rule", None) is a rule
rule_of(route) == route.rule

\* SetRole, UnsetRole, DeleteUser, CreateUser commit: the user's row changes
ChangeUser(row) ==
    /\ db # row
    /\ db' = row
    /\ UNCHANGED <<sessions, req, bus, kreq, boot, kit>>

\* authenticate_token from authenticate_user to the await of
\* get_permission_for: row is what the database holds for claims.sub
authenticate_user ==
    /\ req.pc = "user"
    /\ LET row == authenticate(req.tok.sub)
       IN req' = IF row = NoUser
              THEN [req EXCEPT !.pc = "done", !.resp = 401, !.reason = "user",
                               !.did = @ \o <<"user">>]
              ELSE IF no_roles(row)
              THEN [req EXCEPT !.pc = "done", !.user = row, !.resp = 403, !.reason = "roles",
                               !.did = @ \o <<"user", "roles">>]
              ELSE IF is_superuser(row)
              THEN [req EXCEPT !.pc = "done", !.user = row, !.resp = 200,
                               !.reason = "superuser",
                               !.did = @ \o <<"user", "roles", "superuser">>]
              ELSE IF ~rule_of(req.request.route)
              THEN [req EXCEPT !.pc = "done", !.user = row, !.resp = 200, !.reason = "no rule",
                               !.did = @ \o <<"user", "roles", "superuser", "rule">>]
              ELSE [req EXCEPT !.pc = "permission", !.user = row,
                               !.did = @ \o <<"user", "roles", "superuser", "rule">>]
    /\ UNCHANGED <<sessions, db, bus, kreq, boot, kit>>

\* _ensure_permissions: perm is the row of the view, then check_scope and
\* check_fields; resp 200 stands for next_app being called
_ensure_permissions(perm) ==
    /\ req.pc = "permission"
    /\ LET r == req.request
           scoped == check_scope(r.route, req.user, r, perm.scope)
       IN req' = IF perm = NoPerm
                 THEN [req EXCEPT !.pc = "done", !.resp = 403, !.reason = "permission",
                                  !.did = @ \o <<"permission">>]
                 ELSE IF scoped # 200
                 THEN [req EXCEPT !.pc = "done", !.perm = perm, !.resp = scoped,
                                  !.reason = "scope", !.did = @ \o <<"permission", "scope">>]
                 ELSE IF ~check_fields(r.route, perm, r)
                 THEN [req EXCEPT !.pc = "done", !.perm = perm, !.resp = 403,
                                  !.reason = "fields",
                                  !.did = @ \o <<"permission", "scope", "fields">>]
                 ELSE [req EXCEPT !.pc = "done", !.perm = perm, !.resp = 200,
                                  !.reason = "rule",
                                  !.did = @ \o <<"permission", "scope", "fields">>]
    /\ UNCHANGED <<sessions, db, bus, kreq, boot, kit>>

\* a request to a protected route, whatever the database holds
Protected ==
    \/ /\ req.pc = "idle"
       /\ \E hdr \in {"none", "other", "bearer"}, t \in InputTokens, route \in Routes :
             \E r \in RequestsOf(route) : authenticate_request(hdr, t, r)
    \/ authenticate_user
    \/ /\ req.pc = "permission"
       /\ \E perm \in PermsOf(req.request.route) : _ensure_permissions(perm)

\* the protected routes, no fault
NextAuthz == Tick \/ Login(MaxLogins) \/ Protected \/ \E row \in DbUsers : ChangeUser(row)

SpecAuthz == Init /\ [][NextAuthz]_vars

\* a request to /users/me with any token
ProtectedMe ==
    /\ req.pc = "idle"
    /\ \E hdr \in {"none", "other", "bearer"}, t \in InputTokens :
          \E r \in RequestsOf(Me) : authenticate_request(hdr, t, r)

\* the tokens of one session on every route that takes a token
NextTokens == Login(MaxLogins) \/ Request \/ Step \/ ProtectedMe

SpecTokens == Init /\ [][NextTokens]_vars

\* ---------------------------------- CacheMiddleware, CacheInvalidateMiddleware
\* a bus that wraps send_unwrapped in the middlewares as well
WrappedAlways(via) == TRUE

\* QCBus.__call__ runs dispatch inside the middlewares; send_unwrapped awaits
\* the handler itself
Wrapped(via) == via = "call"

\* a key without the epoch
cache_key_bare(e) == 0

\* CacheMiddleware: the prefix of the key, _epoch(); every query sends the same
\* request, so the keys differ by the prefix alone
cache_key(e) == e % EpochModulus

\* the latest commit whose epoch bump has completed
Floor ==
    LET done == {cmd[c].ver : c \in {d \in Cmds : cmd[d].bumps > 0}}
    IN IF done = {} THEN 0 ELSE CHOOSE v \in done : \A w \in done : w <= v

\* the unexpired entries stored under key
Cached(key) == {e \in rcache : e.key = key /\ now < e.exp}

\* command_bus(ctx, command) or command_bus.send_unwrapped(ctx, command), up to
\* the await of the handler; commands arrive in slot order
Send(c, via) ==
    /\ cmd[c].pc = "idle"
    /\ \A d \in Cmds : d < c => cmd[d].pc # "idle"
    /\ cmd' = [cmd EXCEPT ![c] = [IdleCmd EXCEPT !.via = via, !.pc = "handler"]]
    /\ UNCHANGED <<sessions, req, db, kreq, boot, kit, epoch, commits, rcache, qry>>

\* the handler returns, its transaction committed: CacheInvalidateMiddleware
\* goes on to the increment, send_unwrapped returns to the controller
HandlerReturns(c) ==
    /\ cmd[c].pc = "handler"
    /\ commits' = commits + 1
    /\ cmd' = [cmd EXCEPT ![c].ver = commits + 1,
                          ![c].pc = IF Wrapped(cmd[c].via) THEN "increment" ELSE "done"]
    /\ UNCHANGED <<sessions, req, db, kreq, boot, kit, epoch, rcache, qry>>

\* the handler raises, nothing committed: the exception passes through
\* CacheInvalidateMiddleware
HandlerRaises(c) ==
    /\ cmd[c].pc = "handler"
    /\ cmd' = [cmd EXCEPT ![c].pc = "done", ![c].exc = "handler"]
    /\ UNCHANGED <<sessions, req, db, kreq, boot, kit, epoch, commits, rcache, qry>>

\* CacheInvalidateMiddleware: await self.cache.increment(EPOCH_KEY); return result
Increment(c) ==
    /\ cmd[c].pc = "increment"
    /\ epoch' = epoch + 1
    /\ cmd' = [cmd EXCEPT ![c].pc = "done", ![c].bumps = @ + 1, ![c].bumped = epoch + 1]
    /\ UNCHANGED <<sessions, req, db, kreq, boot, kit, commits, rcache, qry>>

\* the increment raises (connection error): the commit stands
IncrementFails(c) ==
    /\ cmd[c].pc = "increment"
    /\ cmd' = [cmd EXCEPT ![c].pc = "done", ![c].exc = "cache"]
    /\ UNCHANGED <<sessions, req, db, kreq, boot, kit, epoch, commits, rcache, qry>>

\* CacheMiddleware: key = f"{await self._epoch()}:{...}"; queries arrive in
\* slot order
QueryEpoch(q) ==
    /\ qry[q].pc = "idle"
    /\ \A r \in Qrys : r < q => qry[r].pc # "idle"
    /\ qry' = [qry EXCEPT ![q] = [IdleQry EXCEPT !.pc = "get", !.key = cache_key(epoch),
                                                 !.floor = Floor]]
    /\ UNCHANGED <<sessions, req, db, kreq, boot, kit, epoch, commits, rcache, cmd>>

\* if value := await self.cache.get(key): return value
QueryGet(q) ==
    /\ qry[q].pc = "get"
    /\ qry' = IF Cached(qry[q].key) # {}
              THEN [qry EXCEPT ![q].pc = "done", ![q].hit = TRUE,
                               ![q].data = (CHOOSE e \in Cached(qry[q].key) : TRUE).data]
              ELSE [qry EXCEPT ![q].pc = "handler"]
    /\ UNCHANGED <<sessions, req, db, kreq, boot, kit, epoch, commits, rcache, cmd>>

\* result = await call_next(context, qce): the handler reads the database; a
\* falsy result is returned without being stored
QueryHandler(q, truthy) ==
    /\ qry[q].pc = "handler"
    /\ qry' = [qry EXCEPT ![q].data = commits, ![q].truthy = truthy,
                          ![q].pc = IF truthy THEN "set" ELSE "done"]
    /\ UNCHANGED <<sessions, req, db, kreq, boot, kit, epoch, commits, rcache, cmd>>

\* await self.cache.set(key, msgspec_encoder(result), expire=self.cache_time)
QuerySet(q) ==
    /\ qry[q].pc = "set"
    /\ rcache' = {e \in rcache : e.key # qry[q].key}
                 \cup {[key |-> qry[q].key, data |-> qry[q].data, exp |-> now + CacheTime]}
    /\ qry' = [qry EXCEPT ![q].pc = "done"]
    /\ UNCHANGED <<sessions, req, db, kreq, boot, kit, epoch, commits, cmd>>

Command ==
    \/ \E c \in Cmds, via \in {"call", "unwrapped"} : Send(c, via)
    \/ \E c \in Cmds : HandlerReturns(c)
    \/ \E c \in Cmds : HandlerRaises(c)
    \/ \E c \in Cmds : Increment(c)

Query ==
    \/ \E q \in Qrys : QueryEpoch(q)
    \/ \E q \in Qrys : QueryGet(q)
    \/ \E q \in Qrys, truthy \in BOOLEAN : QueryHandler(q, truthy)
    \/ \E q \in Qrys : QuerySet(q)

\* the buses, the increment may fail
NextBus == Tick \/ Command \/ Query \/ \E c \in Cmds : IncrementFails(c)

SpecBus == Init /\ [][NextBus]_vars

\* ------------------------------------------------ the read-through cache key
\* "email" < "name": the order of str
KeyRank(k) == IF k = "email" THEN 1 ELSE 2

\* the items as they come
Unsorted(items) == items

\* sorted(items, key=_sort_by_key): stable, by the name
RECURSIVE Sorted(_)
Sorted(items) ==
    IF items = <<>> THEN <<>>
    ELSE LET least == CHOOSE i \in 1..Len(items) :
                          /\ \A j \in 1..Len(items) :
                                KeyRank(items[i][1]) <= KeyRank(items[j][1])
                          /\ \A j \in 1..(i - 1) :
                                KeyRank(items[j][1]) # KeyRank(items[i][1])
             rest == [j \in 1..(Len(items) - 1) |->
                          IF j < least THEN items[j] ELSE items[j + 1]]
         IN <<items[least]>> \o Sorted(rest)

\* quote_plus: a space becomes +, the unreserved characters stay (the names
\* and the other values drawn here hold nothing else)
quote_plus(s) == IF s = "x y" THEN "x+y" ELSE s

\* urlencode(items, doseq=True): the string name=value joined by &
RECURSIVE urlencode(_)
urlencode(items) ==
    IF items = <<>> THEN ""
    ELSE quote_plus(items[1][1]) \o "=" \o quote_plus(items[1][2])
         \o (IF Len(items) = 1 THEN "" ELSE "&" \o urlencode(Tail(items)))

\* cache_request_key_builder(ctx): one string of method, path, the sorted
\* query string and the user id, nothing between them
cache_request_key_builder(r) ==
    r.method \o r.path \o urlencode(Sorted(r.query)) \o r.user

\* CacheMiddleware: key = f"{await self._epoch()}:{self.cache_key_builder(context)}"
FullKey(e, r) == ToString(cache_key(e)) \o ":" \o cache_request_key_builder(r)

\* the keys of both requests are built
BuildKeys ==
    /\ kreq.pc = "sent"
    /\ kreq' = [kreq EXCEPT !.pc = "built", !.ka = FullKey(kreq.ea, kreq.a),
                            !.kb = FullKey(kreq.eb, kreq.b)]
    /\ UNCHANGED <<sessions, req, db, bus, boot, kit>>

InitKeys == Start /\ kreq \in KeyInputs /\ res = NoResult /\ doc = NoDoc /\ issued = NoPair

SpecKeys == InitKeys /\ [][BuildKeys]_vars

\* two requests of one epoch or of two, the second by any caller and with
\* values of any length
InitCallers == Start /\ kreq \in CallerInputs /\ res = NoResult /\ doc = NoDoc /\ issued = NoPair

SpecCallers == InitCallers /\ [][BuildKeys]_vars

\* ------------------------------------------------------------ create_rules
\* the key temp exists
TempHeld == temp.owner # NoOwner /\ now < temp.expire

\* the key create_rules exists
MarkerPresent == now < marker.exp

\* insert ... on conflict do nothing, under the unique index of the table
CreateOrIgnore(rows, row) ==
    IF \E i \in 1..Len(rows) : rows[i] = row THEN rows ELSE Append(rows, row)

\* BatchCreate: insert every row, on conflict do nothing
RECURSIVE BatchCreate(_, _)
BatchCreate(rows, data) ==
    IF data = <<>> THEN rows
    ELSE BatchCreate(CreateOrIgnore(rows, Head(data)), Tail(data))

\* _create: one transaction over the rules from the i-th on
RECURSIVE CreateFrom(_, _)
CreateFrom(i, cat) ==
    IF i > Len(Rules) THEN cat
    ELSE CreateFrom(i + 1,
             [permission |-> CreateOrIgnore(cat.permission, Rules[i].key),
              permission_field |->
                  BatchCreate(cat.permission_field,
                              [j \in 1..Len(Rules[i].fields) |->
                                   <<Rules[i].key, Rules[i].fields[j][1],
                                     Rules[i].fields[j][2]>>])])

\* the startup hook of worker w begins: async with lock("temp", timeout=20)
Startup(w) ==
    /\ worker[w].pc = "idle"
    /\ \A v \in Workers : v < w => worker[v].pc # "idle"
    /\ worker' = [worker EXCEPT ![w].pc = "acquire", ![w].t0 = now]
    /\ UNCHANGED <<sessions, req, db, bus, kreq, kit, temp, marker, catalog>>

\* RedisSharedLock.acquire: SET temp NX PX 20000, retried until
\* blocking_timeout has passed; the result is dropped and the block is entered
BootAcquire(w) ==
    /\ worker[w].pc = "acquire"
    /\ ~TempHeld \/ now - worker[w].t0 >= BlockingTimeout
    /\ IF ~TempHeld
       THEN /\ temp' = [owner |-> w, expire |-> now + TempLockTimeout,
                        lease |-> temp.lease + 1]
            /\ worker' = [worker EXCEPT ![w].pc = "get", ![w].held = TRUE,
                                        ![w].lease = temp.lease + 1]
       ELSE /\ temp' = temp
            /\ worker' = [worker EXCEPT ![w].pc = "get"]
    /\ UNCHANGED <<sessions, req, db, bus, kreq, kit, marker, catalog>>

\* key = await cache.get("create_rules"); if key: return
BootGet(w) ==
    /\ worker[w].pc = "get"
    /\ worker' = [worker EXCEPT ![w].pc = IF MarkerPresent THEN "release" ELSE "set"]
    /\ UNCHANGED <<sessions, req, db, bus, kreq, kit, temp, marker, catalog>>

\* await cache.set("create_rules", "1", expire=30)
BootSet(w) ==
    /\ worker[w].pc = "set"
    /\ marker' = [exp |-> now + MarkerTTL,
                  by |-> IF MarkerPresent THEN marker.by \cup {w} ELSE {w}]
    /\ worker' = [worker EXCEPT ![w].pc = "create"]
    /\ UNCHANGED <<sessions, req, db, bus, kreq, kit, temp, catalog>>

\* await _create(): the catalog transaction
BootCreate(w) ==
    /\ worker[w].pc = "create"
    /\ catalog' = CreateFrom(1, catalog)
    /\ worker' = [worker EXCEPT ![w].pc = "release", ![w].ran = TRUE,
                                ![w].during = IF TempHeld THEN temp.lease ELSE 0,
                                ![w].beside = MarkerPresent /\ marker.by # {w}]
    /\ UNCHANGED <<sessions, req, db, bus, kreq, kit, temp, marker>>

\* __aexit__ -> Lock.release: raises when this Lock object never acquired or
\* the key no longer carries its token, and the hook fails with it
BootRelease(w) ==
    /\ worker[w].pc = "release"
    /\ IF worker[w].held /\ TempHeld /\ temp.owner = w
       THEN /\ temp' = [temp EXCEPT !.owner = NoOwner]
            /\ worker' = [worker EXCEPT ![w].pc = "done"]
       ELSE /\ temp' = temp
            /\ worker' = [worker EXCEPT ![w].pc = "done", ![w].exc = "lock"]
    /\ UNCHANGED <<sessions, req, db, bus, kreq, kit, marker, catalog>>

\* time passes until the lease of temp or the marker runs out; every waiter
\* has given up by then
RunsOut ==
    /\ \A w \in Workers : worker[w].pc # "acquire"
    /\ \E t \in {temp.expire, marker.exp} : t > now /\ Pass(t - now)

Hook ==
    \/ \E w \in Workers : Startup(w)
    \/ \E w \in Workers : BootAcquire(w)
    \/ \E w \in Workers : BootGet(w)
    \/ \E w \in Workers : BootSet(w)
    \/ \E w \in Workers : BootCreate(w)
    \/ \E w \in Workers : BootRelease(w)

\* the workers start
NextBoot == Tick \/ RunsOut \/ Hook

SpecBoot == Init /\ [][NextBoot]_vars

\* await _create() raises (a statement fails, the assert fails, the connection
\* is lost): nothing of the transaction is committed and the exception leaves
\* the block through __aexit__; the marker set before the call stays
BootCreateFails(w) ==
    /\ worker[w].pc = "create"
    /\ worker' = [worker EXCEPT ![w].pc = "release", ![w].exc = "create"]
    /\ UNCHANGED <<sessions, req, db, bus, kreq, kit, temp, marker, catalog>>

\* the workers start; _create may fail
NextBootFaults == NextBoot \/ \E w \in Workers : BootCreateFails(w)

SpecBootFaults == Init /\ [][NextBootFaults]_vars

\* ------------------------------------------------------------ the manager scope
\* conn.in_transaction()
in_transaction == tm.outer > 0

\* with_transaction that begins whatever the connection is in
begin_when_active(active, iso, nested) == "begin"

\* the branch with_transaction takes

branch(active, iso, nested) ==
    IF ~active /\ ~nested THEN "begin"
    ELSE IF nested /\ active
         THEN IF iso # NoLevel THEN "nested isolation" ELSE "begin_nested"
    ELSE IF nested /\ ~active THEN "warn"
    ELSE "invalid state"

\* ManagerFactory.make_transaction_manager: a new manager over a new
\* connection, once the scope of the last one is over
make_transaction_manager ==
    /\ tm.pc = "exited"
    /\ tm' = NewManager
    /\ UNCHANGED <<sessions, req, db, bus, kreq, boot, res, qc, di, ev, doc, issued>>

\* async with manager: the connection is entered
__aenter__ ==
    /\ tm.pc = "new"
    /\ tm' = [tm EXCEPT !.pc = "open"]
    /\ UNCHANGED <<sessions, req, db, bus, kreq, boot, res, qc, di, ev, doc, issued>>

\* with_transaction(isolation_level, nested=nested) on an active connection.
\* The two ValueErrors are raised before anything is begun or recorded.
with_transaction(iso, nested) ==
    /\ tm.pc = "open"
    /\ LET b == branch(in_transaction, iso, nested)
           found == [made |-> TRUE, iso |-> iso, nested |-> nested, was |-> tm.outer,
                     spWas |-> tm.sp, openedWas |-> tm.opened]
       IN  IF b \in {"nested isolation", "invalid state"}
           THEN tm' = [tm EXCEPT !.call = found, !.warned = FALSE, !.exc = "ValueError"]
           ELSE /\ b = "begin_nested" => tm.sp < MaxSavepoints
                /\ tm' = [tm EXCEPT
                            !.outer = IF b = "begin_nested" THEN @ ELSE @ + 1,
                            !.sp = IF b = "begin_nested" THEN @ + 1 ELSE @,
                            !.opened = TRUE,
                            !.level = IF iso # NoLevel THEN iso ELSE @,
                            !.call = found,
                            !.warned = (b = "warn"),
                            !.exc = "none"]
    /\ UNCHANGED <<sessions, req, db, bus, kreq, boot, res, qc, di, ev, doc, issued>>

\* the scope exits, its block having raised or not. Where a transaction was
\* opened the connection is told to roll back or to commit; that call raises
\* when fails, and then nothing after it runs. close_transaction releases the
\* connection, which ends whatever was left on it.
__aexit__(raised, fails) ==
    /\ tm.pc = "open"
    /\ fails => tm.opened
    /\ LET end == IF ~tm.opened THEN "none" ELSE IF raised THEN "rollback" ELSE "commit"
       IN  IF fails
           THEN tm' = [tm EXCEPT !.pc = "exited", !.raised = raised, !.ended = end,
                                 !.call = NoCall, !.warned = FALSE, !.exc = end]
           ELSE tm' = [tm EXCEPT !.pc = "exited", !.raised = raised, !.ended = end,
                                 !.call = NoCall, !.warned = FALSE, !.exc = "none",
                                 !.outer = 0, !.sp = 0, !.released = TRUE]
    /\ UNCHANGED <<sessions, req, db, bus, kreq, boot, res, qc, di, ev, doc, issued>>

\* one manager scope after the other
NextManager ==
    \/ make_transaction_manager
    \/ __aenter__
    \/ \E iso \in Levels, nested \in BOOLEAN : with_transaction(iso, nested)
    \/ \E raised, fails \in BOOLEAN : __aexit__(raised, fails)

SpecManager == Init /\ [][NextManager]_vars

\* the block of `async with await manager.with_transaction(nested=True)` is
\* left inside an outer scope of the same manager. with_transaction returned
\* self, so the statement runs the manager's own __aexit__: with _is_tx_opened
\* set it tells the connection to roll back or to commit, which ends the outer
\* transaction with its savepoints, and close_transaction releases the
\* connection. The outer block goes on afterwards.
nested__aexit__(raised, fails) ==
    /\ tm.pc = "open"
    /\ tm.call.made /\ tm.call.nested /\ tm.call.was > 0 /\ tm.exc = "none"
    /\ LET end == IF ~tm.opened THEN "none" ELSE IF raised THEN "rollback" ELSE "commit"
       IN  IF fails
           THEN tm' = [tm EXCEPT !.ended = end, !.exc = end]
           ELSE tm' = [tm EXCEPT !.ended = end, !.exc = "none",
                                 !.outer = 0, !.sp = 0, !.released = TRUE]
    /\ UNCHANGED <<sessions, req, db, bus, kreq, boot, res, qc, di, ev, doc, issued>>

\* manager scopes with nested scopes inside them
NextNested == NextManager \/ \E raised, fails \in BOOLEAN : nested__aexit__(raised, fails)

SpecNested == Init /\ [][NextNested]_vars

\* ------------------------------------------------------------ Result
\* as_result_async around a function that returns data (None included) or
\* raises exc (None: it returns)
as_result_async(data, exc) ==
    IF exc # None THEN ResultImpl(None, exc)
    ELSE ResultImpl(data, IF data # None THEN None ELSE "AppError: Empty result")

\* the Results the wrapped functions produce, and every other pair a caller
\* may construct or derive with map, map_err and and_then
Results ==
    {as_result_async(d, e) : d \in Datas, e \in AppErrors \cup {None}}
        \cup {ResultImpl(d, e) : d \in Datas, e \in AppErrors \cup {None}}

\* unwrap_or_raise that takes every false value for a missing one
unwrap_or_raise_falsy(r, err) ==
    IF r.data \in Falsy \cup {None}
    THEN [returned |-> None, raised |-> err, cause |-> r.err, did |-> TRUE]
    ELSE [returned |-> r.data, raised |-> None, cause |-> None, did |-> TRUE]

\* unwrap_or_raise(err): raise err from self.err when data is None, else
\* return data
unwrap_or_raise(r, err) ==
    IF r.data = None
    THEN [returned |-> None, raised |-> err, cause |-> r.err, did |-> TRUE]
    ELSE [returned |-> r.data, raised |-> None, cause |-> None, did |-> TRUE]

\* a Result and an error to raise are chosen
ResultInputs == {[r |-> r, given |-> g, out |-> NoOutcome] : r \in Results, g \in Raised}

InitResult == Start /\ kreq = NoKeys /\ res \in ResultInputs /\ doc = NoDoc /\ issued = NoPair

\* the caller unwraps
Unwrap ==
    /\ ~res.out.did
    /\ res' = [res EXCEPT !.out = unwrap_or_raise(res.r, res.given)]
    /\ UNCHANGED <<sessions, req, db, bus, kreq, boot, tm, qc, di, ev, doc, issued>>

SpecResult == InitResult /\ [][Unwrap]_vars

\* ------------------------------------------------------------ the bus core
\* _resolve_factory(v, Handler): the handler itself, or the one its factory makes
_resolve_factory(v) == v.handler

\* a lookup that falls back on the handler of the base class
_get_handler_of_base(data, t) ==
    IF data[t] # NoHandler THEN _resolve_factory(data[t])
    ELSE IF Base(t) # None THEN _resolve_factory(data[Base(t)])
    ELSE None

\* _get_handler(qc): self._data[type(qc)] resolved; None stands for the
\* KeyError, which is raised as UnregisteredHandlerError
_get_handler(data, t) == IF data[t] # NoHandler THEN _resolve_factory(data[t]) ELSE None

\* register(qc, handler): self._data[qc] = handler
register(t, h) ==
    /\ qc.data[t] # h
    /\ qc' = [qc EXCEPT !.data[t] = h]
    /\ UNCHANGED <<sessions, req, db, bus, kreq, boot, tm, res, di, ev, doc, issued>>

\* await bus(context, m) (via = "call": dispatch looks the handler up) or
\* await bus.send_unwrapped(context, m), m being of class t
send(t, via) ==
    /\ LET handler == _get_handler(qc.data, t)
       IN qc' = [qc EXCEPT !.last =
                    [made |-> TRUE, type |-> t, via |-> via, reg |-> qc.data[t],
                     invoked |-> handler,
                     exc |-> IF handler = None THEN "UnregisteredHandlerError" ELSE None]]
    /\ UNCHANGED <<sessions, req, db, bus, kreq, boot, tm, res, di, ev, doc, issued>>

\* registrations and sends in any order
NextQC ==
    \/ \E t \in MessageTypes, h \in HandlerLikes : register(t, h)
    \/ \E t \in MessageTypes, via \in {"call", "send_unwrapped"} : send(t, via)

SpecQC == Init /\ [][NextQC]_vars

\* ------------------------------------------------------------ injection
\* a Depends that never notices a new generation
never_stale(p) == FALSE

\* resolve_sync / resolve_async: self._generation != container.generation()
stale(p) == di.pts[p].gen # di.generation

\* bind(key, value)
bind(k, v) ==
    /\ di.deps[k] # v
    /\ di' = [di EXCEPT !.deps[k] = v]
    /\ UNCHANGED <<sessions, req, db, bus, kreq, boot, tm, res, qc, ev, doc, issued>>

\* DependencyContainer.reset(): the bindings are cleared, the generation bumped
reset ==
    /\ di.generation < MaxGeneration
    /\ di' = [di EXCEPT !.deps = [k \in DepKeys |-> None], !.generation = @ + 1,
                        !.pending = Points]
    /\ UNCHANGED <<sessions, req, db, bus, kreq, boot, tm, res, qc, ev, doc, issued>>

\* DependencyContainer.bump_generation() on its own
bump_generation ==
    /\ di.generation < MaxGeneration
    /\ di' = [di EXCEPT !.generation = @ + 1]
    /\ UNCHANGED <<sessions, req, db, bus, kreq, boot, tm, res, qc, ev, doc, issued>>

\* inject(f): the Depends of point p is made anew
inject(p) ==
    /\ di.pts[p] # Depends(di.generation)
    /\ di' = [di EXCEPT !.pts[p] = Depends(di.generation)]
    /\ UNCHANGED <<sessions, req, db, bus, kreq, boot, tm, res, qc, ev, doc, issued>>

\* Depends.resolve_sync / resolve_async of point p: a stale Depends drops its
\* compiled factories and takes the generation; one that has a factory calls
\* it; otherwise the binding is read, asserted, compiled and served
resolve(p) ==
    /\ LET d == di.pts[p]
           binding == di.deps[KeyOf(p)]
           kept == IF stale(p) THEN Depends(di.generation) ELSE d
           found == [made |-> TRUE, point |-> p, first |-> p \in di.pending,
                     gen |-> di.generation, binding |-> binding, had |-> d.compiled,
                     served |-> None, at |-> 0, exc |-> None]
       IN  IF kept.compiled # None
           THEN di' = [di EXCEPT !.pts[p] = kept, !.pending = @ \ {p},
                          !.last = [found EXCEPT !.served = kept.compiled, !.at = kept.at]]
           ELSE IF binding = None
           THEN di' = [di EXCEPT !.pts[p] = kept, !.pending = @ \ {p},
                          !.last = [found EXCEPT !.exc = "AssertionError"]]
           ELSE di' = [di EXCEPT
                          !.pts[p] = [kept EXCEPT !.compiled = binding, !.at = di.generation],
                          !.pending = @ \ {p},
                          !.last = [found EXCEPT !.served = binding, !.at = di.generation]]
    /\ UNCHANGED <<sessions, req, db, bus, kreq, boot, tm, res, qc, ev, doc, issued>>

\* binds, resets and resolutions in any order
NextDI ==
    \/ \E k \in DepKeys, v \in Providers : bind(k, v)
    \/ reset
    \/ bump_generation
    \/ \E p \in Points : inject(p)
    \/ \E p \in Points : resolve(p)

SpecDI == Init /\ [][NextDI]_vars

\* ------------------------------------------------------------ events
\* the non-empty sequences of at most n handlers
HandlerSeqs(n) == UNION {[1..k -> EventHandlers] : k \in 1..n}

\* the subscriptions made so far
Subscribed ==
    Len(ev.events[AnyEventMarker]) + Len(ev.events["UserCreated"])
        + Len(ev.events["UserDeleted"])

\* EventBus.register(event_type, *handlers): the list under the key is extended
Subscribe(key, hs) ==
    /\ Subscribed + Len(hs) <= MaxHandlers
    /\ ev' = [ev EXCEPT !.events[key] = @ \o hs]
    /\ UNCHANGED <<sessions, req, db, bus, kreq, boot, tm, res, qc, di, doc, issued>>

\* register(event_type, *handlers) and register_any(*handlers)
register_event(t, hs) == Subscribe(t, hs)
register_any(hs) == Subscribe(AnyEventMarker, hs)

\* publish: the handlers under the type of the event or, when there are none,
\* those under AnyEventMarker
selected(events, t) == IF events[t] # <<>> THEN events[t] ELSE events[AnyEventMarker]

\* handlers awaited one after the other, the first exception ending the run
RECURSIVE until_raise(_, _)
until_raise(handlers, bad) ==
    IF handlers = <<>> THEN <<>>
    ELSE IF Head(handlers) \in bad THEN <<Head(handlers)>>
    ELSE <<Head(handlers)>> \o until_raise(Tail(handlers), bad)

\* asyncio.gather over _safe_invoke(event, handler) for each handler: every
\* one of them is called, and what a handler raises is logged by _safe_invoke
gathered(handlers, bad) == handlers

\* publish(event), event being of class t, the handlers in bad raising
publish(t, bad) ==
    /\ LET handlers == selected(ev.events, t)
       IN ev' = [ev EXCEPT !.last =
                    [made |-> TRUE, type |-> t, typed |-> ev.events[t],
                     any |-> ev.events[AnyEventMarker], bad |-> bad,
                     invoked |-> gathered(handlers, bad),
                     exc |-> IF gathered(handlers, bad) = handlers THEN None
                             ELSE "handler's"]]
    /\ UNCHANGED <<sessions, req, db, bus, kreq, boot, tm, res, qc, di, doc, issued>>

\* subscriptions and publications in any order
NextEvents ==
    \/ \E t \in EventTypes, hs \in HandlerSeqs(MaxHandlers) : register_event(t, hs)
    \/ \E hs \in HandlerSeqs(MaxHandlers) : register_any(hs)
    \/ \E t \in EventTypes, bad \in SUBSET EventHandlers : publish(t, bad)

SpecEvents == Init /\ [][NextEvents]_vars

\* ------------------------------------------------------------ scoped dependencies
\* a compiled factory that hands out the instance made when it was compiled
compiled_first(made, first) == first

\* the compiled ASYNC_CONTEXT factory: exits.enter_async_context(dependency())
\* enters an instance made by this very call of dependency()
compiled_context(made, first) == made + 1

\* _wrap_async_injection._wrapper up to the call of the coroutine:
\* resolve_async drops a compiled factory of an earlier generation; without
\* one it calls dependency(), compiles and enters what it got; with one it
\* enters what the compiled factory yields. The instance is on the exit stack
\* of call c.
CallEnters(c) ==
    /\ di.scope.holds[c] = 0
    /\ di.scope.made < MaxInstances
    /\ LET s == di.scope
           kept == s.compiled /\ s.gen = di.generation
           inst == IF kept THEN compiled_context(s.made, s.first) ELSE s.made + 1
       IN di' = [di EXCEPT !.scope =
                    [s EXCEPT !.gen = di.generation, !.compiled = TRUE,
                              !.made = IF inst > @ THEN inst ELSE @,
                              !.first = IF kept THEN @ ELSE inst,
                              !.entered[inst] = @ + 1,
                              !.holds[c] = inst]]
    /\ UNCHANGED <<sessions, req, db, bus, kreq, boot, tm, res, qc, ev, doc, issued>>

\* the coroutine of call c returns or raises: async with AsyncExitStack()
\* exits what the call entered
CallEnds(c, raised) ==
    /\ di.scope.holds[c] # 0
    /\ di' = [di EXCEPT !.scope.exited[di.scope.holds[c]] = @ + 1,
                        !.scope.holds[c] = 0,
                        !.scope.raised = raised]
    /\ UNCHANGED <<sessions, req, db, bus, kreq, boot, tm, res, qc, ev, doc, issued>>

\* calls of the injected coroutine, the generation bumped in between
NextScope ==
    \/ \E c \in Calls : CallEnters(c)
    \/ \E c \in Calls, raised \in BOOLEAN : CallEnds(c, raised)
    \/ bump_generation

SpecScope == Init /\ [][NextScope]_vars

\* ------------------------------------------------------------ Context
\* _is_container(x)
_is_container(x) == x.kind \in {"object", "array"}

\* the values held by a container
Held(x) == {x.items[k] : k \in DOMAIN x.items}

\* _collect_keys(data): the keys of every object met on the descent; the
\* descent is depth first, the set it returns does not depend on the order
RECURSIVE _collect_keys(_)
_collect_keys(x) ==
    (IF x.kind = "object" THEN DOMAIN x.items ELSE {})
        \cup UNION {_collect_keys(v) : v \in {w \in Held(x) : _is_container(w)}}

\* the depth of the deepest container under x, x being at depth d
RECURSIVE Deepest(_, _)
Deepest(x, d) ==
    LET below == {Deepest(v, d + 1) : v \in {w \in Held(x) : _is_container(w)}}
    IN  IF below = {} THEN d ELSE CHOOSE m \in below : \A n \in below : n <= m

\* Context.request_json_keys() for the body, and resolve_keys_allowed_denylist
\* under a grant that denies "email" in the JSON source
request_json_keys ==
    /\ ~doc.done
    /\ LET x == doc.body
           keys == _collect_keys(x)
           grant == [deny_fields |-> [src \in {"json"} |-> {"email"}]]
       IN doc' = IF Deepest(x, 0) > CollectMaxDepth
                 THEN [doc EXCEPT !.exc = "ValueError", !.done = TRUE]
                 ELSE [doc EXCEPT !.keys = keys, !.done = TRUE,
                          !.passes = resolve_keys_allowed_denylist(grant,
                                         [NoRequest EXCEPT !.json = keys])]
    /\ UNCHANGED <<sessions, req, db, bus, kreq, boot, tm, res, qc, di, ev, issued>>

InitContext ==
    /\ Start /\ kreq = NoKeys /\ res = NoResult /\ issued = NoPair
    /\ doc \in {[NoDoc EXCEPT !.body = x] : x \in Bodies}

SpecContext == InitContext /\ [][request_json_keys]_vars

\* ------------------------------------------------------------ issue_pair
\* _encode(sub, typ, iat, ttl, jti, iss, aud): the payload that is signed;
\* jti, iss and aud are left out (None) when they are None or empty
_encode(sub, typ, iat, ttl, jti, iss, aud) ==
    [sub |-> sub, typ |-> typ, iat |-> iat, exp |-> iat + ttl, jti |-> jti, iss |-> iss,
     aud |-> aud]

\* issue_pair(sub, jti=jti, iss=iss, aud=aud) at second t. The access token
\* is encoded with the positional arguments (sub, "access", now, ttl, iss,
\* aud): they land in the parameters jti and iss of _encode, aud stays None
issue_pair_claims(sub, jti, iss, aud, t) ==
    [access |-> _encode(sub, "access", t, AccessTTL, iss, aud, None),
     refresh |-> _encode(sub, "refresh", t, RefreshTTL, jti, iss, aud),
     expires_in |-> RefreshTTL]

\* jwt.decode(token, key, issuer=iss, audience=aud) at second t on a token
\* with this payload, signed with the configured key
decode(claims, iss, aud, t) ==
    IF t >= claims.exp THEN [exc |-> "ExpiredSignatureError", claims |-> NoClaims]
    ELSE IF aud = None /\ claims.aud # None
    THEN [exc |-> "InvalidAudienceError", claims |-> NoClaims]
    ELSE IF aud # None /\ claims.aud = None
    THEN [exc |-> "MissingRequiredClaimError", claims |-> NoClaims]
    ELSE IF aud # None /\ claims.aud # aud
    THEN [exc |-> "InvalidAudienceError", claims |-> NoClaims]
    ELSE IF iss # None /\ claims.iss = None
    THEN [exc |-> "MissingRequiredClaimError", claims |-> NoClaims]
    ELSE IF iss # None /\ claims.iss # iss
    THEN [exc |-> "InvalidIssuerError", claims |-> NoClaims]
    ELSE [exc |-> None, claims |-> claims]

\* the pair is issued
IssuePair ==
    /\ issued.pc = "issue"
    /\ LET p == issue_pair_claims(issued.sub, issued.jti, issued.iss, issued.aud, issued.at)
       IN issued' = [issued EXCEPT !.pc = "verify access", !.access = p.access,
                               !.refresh = p.refresh, !.expires_in = p.expires_in]
    /\ UNCHANGED <<sessions, req, db, bus, kreq, boot, tm, res, qc, di, ev, doc>>

\* JwtImpl.verify(access, iss, aud), then verify(refresh, iss, aud), in the
\* second of the issue
VerifyPair ==
    /\ \/ /\ issued.pc = "verify access"
          /\ issued' = [issued EXCEPT !.pc = "verify refresh",
                         !.access_verdict = decode(issued.access, issued.iss, issued.aud, issued.at)]
       \/ /\ issued.pc = "verify refresh"
          /\ issued' = [issued EXCEPT !.pc = "done",
                         !.refresh_verdict = decode(issued.refresh, issued.iss, issued.aud, issued.at)]
    /\ UNCHANGED <<sessions, req, db, bus, kreq, boot, tm, res, qc, di, ev, doc>>

\* the arguments a caller may pass
PairInputs ==
    {[NoPair EXCEPT !.sub = "u1", !.jti = j, !.iss = i, !.aud = a, !.at = t] :
        j \in {None, "j1"}, i \in {None, "auth", "api"}, a \in {None, "api", "web"},
        t \in 0..MaxTime}

InitPair == Start /\ kreq = NoKeys /\ res = NoResult /\ doc = NoDoc /\ issued \in PairInputs

SpecPair == InitPair /\ [][IssuePair \/ VerifyPair]_vars

\* ------------------------------------------------------------ properties
\* the entry a call presents, and the entry of the token it issued
Entry(p) == _get_hashed_pair(proc[p].tok, proc[p].fp, proc[p].tok)
NewEntry(p) == _get_hashed_pair(proc[p].tok, proc[p].fp, proc[p].newTok)

\* p is inside the async with block of rotate
InBlock(p) ==
    /\ proc[p].op = "refresh"
    /\ proc[p].pc \in {"get_list", "delete", "discard", "issue", "set_list", "release"}

\* p and q carry the same arguments (fingerprint, refresh token)
SameArgs(p, q) == proc[p].fp = proc[q].fp /\ proc[p].tok = proc[q].tok

\* p is a rotate that returned a new pair
Rotated(p) == proc[p].op = "refresh" /\ proc[p].pc = "done" /\ proc[p].resp = 200

\* C1: when a rotate returns a new pair, the list no longer holds the entry of
\* the token it was given and holds the entry of the new token; a rotate that
\* tests the list after that with the same prior token does not find it
\* (it takes the branch that deletes the list).
C1_RotateReplacesEntry ==
    [][\A p \in Procs :
          /\ (/\ proc[p].op = "refresh"
              /\ proc[p].pc = "release"
              /\ proc'[p].pc = "done"
              /\ proc'[p].resp = 200)
                => /\ ~InList(authList'[proc[p].tok.sub], Entry(p))
                   /\ InList(authList'[proc[p].tok.sub], NewEntry(p))
          /\ (/\ proc[p].pc = "get_list"
              /\ \E q \in Procs \ {p} : Rotated(q) /\ SameArgs(p, q))
                => proc'[p].pc # "discard"]_vars

\* C2: of two rotates of the same session that overlap, at most one returns a
\* pair, and the other one either found the entry missing or failed on the
\* lock (calls cut short by a cache error or a cancellation aside).
C2_AtMostOneRotates ==
    \A p, q \in Procs :
        (/\ p # q
         /\ proc[p].op = "refresh" /\ proc[q].op = "refresh"
         /\ proc[p].pc = "done" /\ proc[q].pc = "done"
         /\ SameArgs(p, q)
         /\ proc[p].conc \/ proc[q].conc
         /\ proc[p].exc \notin {"error", "cancel"}
         /\ proc[q].exc \notin {"error", "cancel"})
            => /\ ~(proc[p].resp = 200 /\ proc[q].resp = 200)
               /\ proc[p].resp # 200 => proc[p].exc \in {"empty", "lock"}

\* C3: a task is inside the block only if its acquire obtained the lock, and
\* while the lease of a task inside the block is live no other task is inside
\* the block of the same lock.
C3_MutualExclusion ==
    /\ \A p \in Procs : InBlock(p) => proc[p].held
    /\ \A p, q \in Procs :
          (/\ p # q
           /\ InBlock(p) /\ InBlock(q)
           /\ proc[p].tok.sub = proc[q].tok.sub)
              => lockOwner[proc[p].tok.sub] # p

\* C4: an acquire that obtains the lock sets a lease of RotateLockTimeout
\* seconds, and an acquire that does not obtain it has waited twice that long.
C4_AcquireWaitsTwiceTimeout ==
    [][\A p \in Procs :
          (proc[p].pc = "acquire" /\ proc'[p].pc = "get_list")
             => IF proc'[p].held
                THEN lockExpire'[proc[p].tok.sub] = now + RotateLockTimeout
                ELSE now - proc[p].t0 >= 2 * RotateLockTimeout]_vars

C6_RefreshUnavailable ==
    \A p \in Procs :
        (proc[p].op = "refresh" /\ proc[p].pc = "done" /\ proc[p].exc # "cancel")
            => /\ (proc[p].exc = "error" \/ (proc[p].exc = "lock" /\ ~proc[p].held))
                    => proc[p].resp = 503
               /\ proc[p].resp = 401
                    => proc[p].exc \in {"scheme", "verify", "typ", "empty"}

Others(l, jti) == SelectSeq(l, LAMBDA e : e[1] # jti)

\* C8: make_token puts one entry with a jti of its own at the head of the list
\* and removes none, so n logins with no rotate or revoke leave n entries of
\* distinct jti; the discard and the set_list of a rotate, and the discard of
\* a revoke, leave the entries of every other session in place.
C8_SessionsAdditive ==
    /\ [](\A u \in Users :
            (\A p \in Procs : proc[p].tok = BadToken)
                => /\ Len(authList[u]) = nextJti - 1
                   /\ \A i, j \in 1..Len(authList[u]) :
                         i # j => authList[u][i][1] # authList[u][j][1])
    /\ [][\A u \in Users :
            /\ nextJti' # nextJti
                  => /\ Len(authList'[u]) = Len(authList[u]) + 1
                     /\ Tail(authList'[u]) = authList[u]
                     /\ Head(authList'[u])[1] = nextJti
                     /\ \A i \in 1..Len(authList[u]) : authList[u][i][1] # nextJti
            /\ \A p \in Procs :
                  (/\ proc[p].pc \in {"discard", "set_list", "v_discard"}
                   /\ proc'[p] # proc[p]
                   /\ proc[p].tok.sub = u)
                      => Others(authList'[u], proc[p].tok.jti)
                            = Others(authList[u], proc[p].tok.jti)]_vars

\* two sessions opened by two logins have both been rotated, and the list holds
\* two entries
C8_Witness ==
    \E p, q \in Procs :
        /\ Rotated(p) /\ Rotated(q)
        /\ proc[p].tok.jti # proc[q].tok.jti
        /\ Len(authList[proc[p].tok.sub]) = 2
        /\ InList(authList[proc[p].tok.sub], NewEntry(p))
        /\ InList(authList[proc[p].tok.sub], NewEntry(q))

\* C9: after every make_token and after every set_list of a rotate the key
\* expires RefreshTTL seconds from now.
C9_KeyCarriesExpiry ==
    [][\A u \in Users :
          (\/ nextJti' # nextJti
           \/ \E p \in Procs :
                 /\ proc[p].pc = "set_list" /\ proc'[p].pc = "release"
                 /\ proc[p].tok.sub = u
                 /\ authList'[u] # authList[u])
              => authTTL'[u] = now + RefreshTTL]_vars

\* C10: a rotate or revoke whose fingerprint is not the one its token was
\* handed out under never reaches discard, issue_pair or set_list, returns no
\* pair and no true: the rotate takes the branch that deletes the list, the
\* revoke removes nothing.
C10_FingerprintBound ==
    \A p \in Procs :
        (proc[p].tok # BadToken /\ <<proc[p].tok, proc[p].fp>> \notin known)
            => /\ proc[p].pc \notin {"discard", "issue", "set_list", "v_discard"}
               /\ proc[p].newTok = BadToken
               /\ proc[p].resp # 200 \/ proc[p].op = "logout"
               /\ ~proc[p].status

\* a rotate under another fingerprint has failed and the list is gone
C10_Witness ==
    \E p \in Procs :
        /\ proc[p].op = "refresh" /\ proc[p].pc = "done"
        /\ proc[p].tok # BadToken /\ <<proc[p].tok, proc[p].fp>> \notin known
        /\ proc[p].exc = "empty" /\ proc[p].resp = 401
        /\ authList[proc[p].tok.sub] = <<>>

\* C11: token types are not interchangeable. A refresh token sent as the
\* Bearer credential of a protected route is answered 401; no rotate or
\* revoke goes on with a token that is not a refresh token, and the step that
\* turns an access token away issues no pair and leaves the session lists as
\* they were.
C11_TypesNotInterchangeable ==
    [][/\ (req'.tok # BadToken /\ req'.tok.typ = "refresh")
              => req'.pc = "done" /\ req'.resp = 401
       /\ \A p \in Procs :
             /\ proc'[p].tok # BadToken => proc'[p].tok.typ = "refresh"
             /\ (proc[p].pc = "idle" /\ proc'[p].exc = "typ")
                    => /\ proc'[p].pc = "done"
                       /\ proc'[p].newTok = BadToken
                       /\ ~proc'[p].status
                       /\ proc'[p].op = "refresh" => proc'[p].resp = 401
                       /\ authList' = authList /\ authTTL' = authTTL]_vars

\* a refresh token was turned away by a protected route, and an access token
\* by refresh and by logout, while the session is still listed
C11_Witness ==
    /\ req.pc = "done" /\ req.tok # BadToken /\ req.tok.typ = "refresh" /\ req.resp = 401
    /\ \E p, q \in Procs :
          /\ proc[p].op = "refresh" /\ proc[p].exc = "typ" /\ proc[p].resp = 401
          /\ proc[q].op = "logout" /\ proc[q].exc = "typ" /\ ~proc[q].status
    /\ \E u \in Users : Len(authList[u]) = 1

\* the user of the request's token has a row without roles
Roleless(tok) == tok # BadToken /\ db.id = tok.sub /\ db.roles = {}

\* the middleware answers with this step, before any permission is looked up
Answers == req.pc \in {"idle", "user"} /\ req'.pc = "done"

\* C12 as stated: a request that carries a token of a user without roles is
\* answered 403 on every protected route, whether the token is valid or not.
C12_RolelessAlways403 ==
    [][(Answers /\ Roleless(req'.tok)) => req'.resp = 403]_vars

\* C12: a request with a valid access token of a user without roles is
\* answered 403 on every protected route, the route without a rule included,
\* and no permission is looked up; a token that does not verify or is not an
\* access token is answered 401 whatever the roles are.
C12_RolelessForbidden ==
    [][/\ (req.pc = "user" /\ req'.pc # "user" /\ Roleless(req.tok))
              => /\ req'.pc = "done" /\ req'.resp = 403
                 /\ req'.perm = NoPerm
       /\ (req.pc = "idle" /\ req'.pc = "done" /\ req'.tok # BadToken)
              => req'.resp = 401]_vars

\* a user without roles was refused on the route that carries no rule
C12_Witness ==
    /\ req.pc = "done" /\ req.resp = 403 /\ req.reason = "roles"
    /\ req.request.route = Me
    /\ AccessClaims(req.tok, now)
    /\ req.user.roles = {}

\* C13: when the row of the token's user holds at least one role with
\* is_superuser = true, the middleware lets the request through on every
\* protected route as soon as it has loaded the user: no permission is looked
\* up, check_scope and check_fields are not run, whatever her other roles, the
\* route's rule and the request's fields are.
C13_SuperuserBypass ==
    [][(/\ req.pc = "user" /\ req'.pc # "user"
        /\ db.id = req.tok.sub
        /\ \E role \in db.roles : role.is_superuser)
           => /\ req'.pc = "done" /\ req'.resp = 200
              /\ req'.reason = "superuser"
              /\ req'.perm = NoPerm]_vars

\* a user with a plain role and a superuser role has patched another user
\* with a body
C13_Witness ==
    /\ req.pc = "done" /\ req.resp = 200 /\ req.reason = "superuser"
    /\ req.user.roles = {Viewer, Admin}
    /\ req.request.route = Update
    /\ req.request.path_user # req.user.id
    /\ req.request.json = Keys

\* the keys of the request that the permission denies, over both sources
DeniedKeys(p, r) ==
    UNION {request_keys(r, src) \cap p.deny_fields[src] : src \in DOMAIN p.deny_fields}

\* rule.check_fields is run by this step: the permission was found and
\* check_scope returned
FieldsChecked(perm) ==
    /\ req.pc = "permission" /\ req'.pc = "done"
    /\ req'.perm = perm /\ perm # NoPerm
    /\ check_scope(req.request.route, req.user, req.request, perm.scope) = 200

\* C14: on a route whose rule has check_fields = deny list, the field check
\* of a request by a user who is no superuser answers 403 if and only if, for
\* some source (query or JSON), a key of the request is in the permission's
\* deny_fields of that source; with no denied key present the check passes and
\* the handler runs.
C14_DenyList ==
    [][\A perm \in PermsOf(req.request.route) :
          (FieldsChecked(perm) /\ req.request.route.check_fields = "denylist")
              => /\ ~is_superuser(req.user)
                 /\ req'.resp = 403 <=> DeniedKeys(perm, req.request) # {}
                 /\ req'.resp = 200 <=> DeniedKeys(perm, req.request) = {}]_vars

\* a patch whose body carries a denied key was refused, though the query
\* string was clean
C14_Witness ==
    /\ req.pc = "done" /\ req.resp = 403 /\ req.reason = "fields"
    /\ req.request.route = Update
    /\ "json" \in DOMAIN req.perm.deny_fields
    /\ req.request.json \cap req.perm.deny_fields["json"] # {}
    /\ req.request.query = {}

\* the keys of the request that the permission does not allow, a source
\* without an allow list allowing nothing
UnlistedKeys(p, r) ==
    UNION {request_keys(r, src) \ (IF src \in DOMAIN p.allow_fields
                                   THEN p.allow_fields[src] ELSE {}) : src \in KeySources}

\* C15: on a route whose rule has check_fields = allow list, the field check
\* answers 403 whenever a source of the request carries a key that is not in
\* the permission's allow_fields of that source, an absent allow_fields entry
\* counting as the empty set; the handler runs only when every key of every
\* source is allowed.
C15_AllowList ==
    [][\A perm \in PermsOf(req.request.route) :
          (FieldsChecked(perm) /\ req.request.route.check_fields = "allowlist")
              => /\ UnlistedKeys(perm, req.request) # {} => req'.resp = 403
                 /\ req'.resp = 200 => UnlistedKeys(perm, req.request) = {}]_vars

\* the request targets the caller in the way the route's check_scope asks for
TargetsCaller(row, r) ==
    CASE r.route.check_scope = "by_user_id" -> r.path_user = row.id
      [] r.route.check_scope = "by_user_email" ->
             /\ "email" \in r.query
             /\ row.email # NoEmail
             /\ Lower(r.email) = Lower(row.email)
      [] OTHER -> TRUE

\* C16: with a permission of scope own the request is let through only when
\* it targets the caller (path user_id equal to her id, or email parameter
\* equal to her email whatever the case); every other request under scope
\* own, a list request without email parameter included, is answered 403; a
\* permission of scope any is never refused by the scope check.
C16_OwnScope ==
    [][\A perm \in PermsOf(req.request.route) :
          (req.pc = "permission" /\ req'.pc = "done" /\ req'.perm = perm /\ perm # NoPerm)
              => /\ (perm.scope = "own" /\ ~TargetsCaller(req.user, req.request))
                        => req'.resp = 403
                 /\ (perm.scope = "own" /\ req'.resp = 200)
                        => TargetsCaller(req.user, req.request)
                 /\ perm.scope = "any" => req'.reason # "scope"]_vars

C18_NoStaleAfterBump ==
    [][\A q \in Qrys :
          (qry[q].pc # "done" /\ qry'[q].pc = "done")
              => /\ qry'[q].data >= qry'[q].floor
                 /\ \A c \in Cmds :
                       (cmd[c].bumps > 0 /\ qry'[q].data < cmd[c].ver)
                           => qry'[q].key < cmd[c].bumped
                 /\ qry'[q].hit
                       => \E e \in rcache :
                             /\ e.key = qry'[q].key /\ e.data = qry'[q].data
                             /\ now < e.exp]_vars

\* a response was cached, a command committed and bumped the epoch, and a
\* query that began afterwards missed the old entry, which is still stored,
\* and answered with the committed data
C18_Witness ==
    \E q \in Qrys, c \in Cmds :
        /\ cmd[c].bumps = 1 /\ cmd[c].ver = 1 /\ cmd[c].bumped = 1
        /\ \E e \in rcache : e.key = 0 /\ e.data = 0 /\ now < e.exp
        /\ qry[q].pc = "done" /\ qry[q].floor = 1 /\ qry[q].key = 1
        /\ ~qry[q].hit /\ qry[q].data = 1

\* the components of a request's key: the epoch modulo 1_000_000, method,
\* path, the query parameters whatever their order, the user id
Components(e, r) ==
    <<e % EpochModulus, r.method, r.path, {r.query[i] : i \in DOMAIN r.query}, r.user>>

\* C19: two requests that agree on the epoch modulo 1_000_000, the method, the
\* path, the query parameters and the user id get the same read-through key,
\* whatever the order of their query parameters, their headers, their body and
\* their request id are.
C19_KeyOfComponents ==
    (kreq.pc = "built" /\ Components(kreq.ea, kreq.a) = Components(kreq.eb, kreq.b))
        => kreq.ka = kreq.kb

\* two requests with the same two parameters in opposite order, other headers,
\* body and request id, under epochs 0 and 1_000_000, have got the same key
C19_Witness ==
    /\ kreq.pc = "built"
    /\ Len(kreq.a.query) = 2 /\ kreq.a.query # kreq.b.query
    /\ Components(kreq.ea, kreq.a) = Components(kreq.eb, kreq.b)
    /\ kreq.ea # kreq.eb
    /\ kreq.a.headers # kreq.b.headers /\ kreq.a.body # kreq.b.body
    /\ kreq.a.request_id # kreq.b.request_id
    /\ kreq.ka = kreq.kb

\* C20: while the first lease of the lock has not run out, the catalog
\* transaction is executed by at most one worker during a lease and by no
\* worker while the create_rules marker of another worker is present; once it
\* has been executed every declared permission is in the catalog exactly once
\* and the rows of permission_field are the declared fields, each once.
C20_OneRunPerLease ==
    now < TempLockTimeout
        => /\ \A w, v \in Workers :
                 (w # v /\ worker[w].ran /\ worker[v].ran)
                     => worker[w].during # worker[v].during
           /\ \A w \in Workers : worker[w].ran => ~worker[w].beside
           /\ (\E w \in Workers : worker[w].ran)
                 => /\ \A i \in 1..Len(Rules) :
                          Cardinality({n \in 1..Len(catalog.permission) :
                                          catalog.permission[n] = Rules[i].key}) = 1
                    /\ Len(catalog.permission) = Len(Rules)
                    /\ {catalog.permission_field[n] :
                           n \in 1..Len(catalog.permission_field)}
                       = UNION {{<<Rules[i].key, Rules[i].fields[j][1],
                                   Rules[i].fields[j][2]>> :
                                    j \in 1..Len(Rules[i].fields)} : i \in 1..Len(Rules)}
                    /\ \A m, n \in 1..Len(catalog.permission_field) :
                          catalog.permission_field[m] = catalog.permission_field[n]
                              => m = n

\* C21: when a manager scope in which a transaction was opened exits, the
\* connection was told to roll back if the block raised and to commit
\* otherwise, and the connection is released, also when that call failed.
C21_ExitReleases ==
    (tm.pc = "exited" /\ tm.opened) =>
        /\ tm.ended = (IF tm.raised THEN "rollback" ELSE "commit")
        /\ tm.released

\* C28: right after a call of with_transaction: with no transaction active it
\* began one (warning exactly when nested was asked for); with one active and
\* nested=true and no isolation level it opened a savepoint; with one active
\* and either an isolation level on nested=true or nested=false it raised
\* ValueError and left outer transaction, savepoints and _is_tx_opened as they
\* were; and the connection never has more than one outer transaction.
C28_WithTransaction ==
    /\ tm.outer <= 1
    /\ tm.call.made =>
        LET c == tm.call
        IN  /\ c.was = 0 =>
                /\ tm.exc = "none" /\ tm.outer = 1 /\ tm.sp = c.spWas
                /\ tm.opened /\ tm.warned = c.nested
            /\ (c.was > 0 /\ c.nested /\ c.iso = NoLevel) =>
                /\ tm.exc = "none" /\ tm.outer = c.was /\ tm.sp = c.spWas + 1
                /\ tm.opened /\ ~tm.warned
            /\ (c.was > 0 /\ (~c.nested \/ c.iso # NoLevel)) =>
                /\ tm.exc = "ValueError" /\ tm.outer = c.was /\ tm.sp = c.spWas
                /\ tm.opened = c.openedWas /\ ~tm.warned

\* a call that asked for an isolation level on a savepoint, made with a
\* savepoint already open, was refused
C28_Witness ==
    /\ tm.call.made /\ tm.call.was = 1 /\ tm.call.nested /\ tm.call.iso # NoLevel
    /\ tm.exc = "ValueError" /\ tm.sp > 0

\* C23: unwrap_or_raise(err) on a Result whose data is None raises err with
\* the Result's err as cause and returns nothing; on a Result whose data is
\* not None it returns the data and raises nothing.
C23_UnwrapOrRaise ==
    res.out.did =>
        IF res.r.data = None
        THEN res.out.raised = res.given /\ res.out.cause = res.r.err
                /\ res.out.returned = None
        ELSE res.out.returned = res.r.data /\ res.out.raised = None

\* an Ok Result carrying a false value was unwrapped
C23_Witness == res.out.did /\ res.r.data \in Falsy /\ res.out.returned = res.r.data

\* C22: when the middleware, having verified the access token, loads the user
\* and the database holds no user with the token's subject, the request is
\* answered 401 on whatever route it is for, and the handler is not run.
C22_UserGone401 ==
    [][(req.pc = "user" /\ req'.pc # "user" /\ db.id # req.tok.sub) =>
          req'.pc = "done" /\ req'.resp = 401]_vars

\* a request with a valid access token to a route with a rule was refused
\* because the user had been deleted after the login
C22_Witness ==
    /\ req.pc = "done" /\ req.reason = "user" /\ req.resp = 401
    /\ req.request.route = Update
    /\ AccessClaims(req.tok, now)
    /\ db = NoUser

\* C24: a message sent through the bus is handled by the handler that was
\* registered under exactly the class of the message when it was sent; when
\* nothing was registered under that class the send raises
\* UnregisteredHandlerError and no handler is invoked.
C24_ExactTypeHandler ==
    qc.last.made =>
        IF qc.last.reg = NoHandler
        THEN qc.last.exc = "UnregisteredHandlerError" /\ qc.last.invoked = None
        ELSE qc.last.invoked = qc.last.reg.handler /\ qc.last.exc = None

\* a message of a subclass was sent while only its base class had a handler
C24_Witness ==
    /\ qc.last.made /\ qc.last.type = "CreateUserV2" /\ qc.last.reg = NoHandler
    /\ qc.data["CreateUser"] # NoHandler /\ qc.data["CreateUserV2"] = NoHandler
    /\ qc.last.exc = "UnregisteredHandlerError"

\* C25: the first resolution of a Depends after a reset of the container
\* yields what is bound under its key at that moment, and fails when nothing
\* is; and whatever a resolution yields comes from a factory compiled in the
\* generation in which it is resolved, never from one compiled before a reset.
C25_ResetDropsCompiled ==
    di.last.made =>
        /\ di.last.served # None => di.last.at = di.last.gen
        /\ di.last.first =>
              IF di.last.binding = None
              THEN di.last.exc = "AssertionError" /\ di.last.served = None
              ELSE di.last.served = di.last.binding /\ di.last.exc = None

\* a Depends that had compiled one binding resolved, after a reset, to another
C25_Witness ==
    /\ di.last.made /\ di.last.first
    /\ di.last.had # None /\ di.last.binding # None /\ di.last.had # di.last.binding
    /\ di.last.served = di.last.binding

\* C26: when a rotate is refused because the refresh token it was given does
\* not verify (here: a token handed to a client that has expired), the auth
\* list of the token's user is empty afterwards.
C26_VerifyFailurePurges ==
    [][\A p \in Procs, k \in known :
          (/\ Arrives(p)
           /\ ~verify(k[1], now)
           /\ proc'[p].op = "refresh"
           /\ proc'[p].pc = "done"
           /\ proc'[p].exc = "verify")
          => authList'[k[1].sub] = <<>>]_vars

\* the checks of the middleware in the order of the code, and the check at
\* which a refusal for the given reason was made
Checks == <<"header", "token", "user", "roles", "superuser", "rule", "permission", "scope",
            "fields">>
RefusedAt(reason) == IF reason \in {"missing", "scheme"} THEN "header" ELSE reason
Made(check) == \E i \in 1..Len(req.did) : req.did[i] = check

\* C27: the checks a request has gone through are an initial part of header,
\* token, user load, roles, superuser, route rule, effective permission,
\* scope, fields; a refused request ends with the check that refused it; the
\* user is not loaded for a missing or invalid token; the permission view is
\* not read for a user without roles, a superuser or a route without a rule;
\* and the fields are not checked after the scope check failed.
C27_ChecksInOrder ==
    /\ Len(req.did) <= Len(Checks)
    /\ \A i \in 1..Len(req.did) : req.did[i] = Checks[i]
    /\ (req.pc = "done" /\ req.resp # 200) => req.did[Len(req.did)] = RefusedAt(req.reason)
    /\ req.reason \in {"missing", "scheme", "token"} => ~Made("user") /\ ~Made("permission")
    /\ (/\ req.user # NoUser
        /\ \/ req.user.roles = {}
           \/ \E role \in req.user.roles : role.is_superuser
           \/ ~req.request.route.rule) => ~Made("permission")
    /\ req.reason = "scope" => ~Made("fields")

\* a request was refused by the scope check, the fields unchecked
C27_Witness ==
    /\ req.pc = "done" /\ req.reason = "scope" /\ req.resp # 200
    /\ req.did = SubSeq(Checks, 1, 8)

\* C29: every handler subscribed with register_any when an event is published
\* is invoked for it, whatever handlers are subscribed to the event's type.
C29_AnyHandlersAlways ==
    ev.last.made =>
        \A i \in 1..Len(ev.last.any) :
            \E j \in 1..Len(ev.last.invoked) : ev.last.invoked[j] = ev.last.any[i]

\* C30: publish invokes every handler subscribed to the type of the event,
\* each once per subscription, also when some of them raise, and raises
\* nothing to the publisher.
C30_AllTypedHandlersRun ==
    (ev.last.made /\ ev.last.typed # <<>>) =>
        /\ ev.last.invoked = ev.last.typed
        /\ ev.last.exc = None

\* the first of two handlers subscribed to the type raised, the second ran
C30_Witness ==
    /\ ev.last.made /\ Len(ev.last.typed) = 2
    /\ ev.last.typed[1] \in ev.last.bad /\ ev.last.typed[2] \notin ev.last.bad
    /\ ev.last.invoked = ev.last.typed /\ ev.last.exc = None

\* C31: every instance of a scoped dependency that was made is entered once
\* and belongs to one call; it has been exited once when its call is over,
\* whether the call returned or raised, and not at all while the call runs;
\* no two calls under way hold the same instance.
C31_ScopedOncePerCall ==
    /\ \A i \in 1..di.scope.made :
          /\ di.scope.entered[i] = 1
          /\ di.scope.exited[i] = (IF \E c \in Calls : di.scope.holds[c] = i THEN 0 ELSE 1)
    /\ \A c, d \in Calls : (c # d /\ di.scope.holds[c] # 0) => di.scope.holds[c] # di.scope.holds[d]

\* a call raised and its instance was exited, while a later call holds its own
C31_Witness ==
    /\ di.scope.raised /\ di.scope.exited[1] = 1
    /\ \E c \in Calls : di.scope.holds[c] = 3

\* C32: the keys collected from a JSON body are exactly its top-level keys,
\* and a body that has the denied name only inside a nested value passes the
\* deny list.
C32_TopLevelKeysOnly ==
    doc.done =>
        /\ doc.keys = DOMAIN doc.body.items
        /\ "email" \notin DOMAIN doc.body.items => doc.passes

\* C33: issue_pair(sub, jti=J, iss=I, aud=A) gives an access token with the
\* claims typ=access, sub, iss=I, aud=A and a refresh token with the claims
\* typ=refresh, sub, jti=J, iss=I, aud=A, both with the same iat, and
\* expires_in equal to the refresh lifetime; verifying either token with the
\* same iss and aud yields those claims.
C33_PairClaims ==
    issued.pc = "done" =>
        /\ issued.access.typ = "access" /\ issued.access.sub = issued.sub
        /\ issued.access.iss = issued.iss /\ issued.access.aud = issued.aud
        /\ issued.refresh.typ = "refresh" /\ issued.refresh.sub = issued.sub
        /\ issued.refresh.jti = issued.jti
        /\ issued.refresh.iss = issued.iss /\ issued.refresh.aud = issued.aud
        /\ issued.access.iat = issued.refresh.iat
        /\ issued.expires_in = RefreshTTL
        /\ issued.access_verdict = [exc |-> None, claims |-> issued.access]
        /\ issued.refresh_verdict = [exc |-> None, claims |-> issued.refresh]

\* C34: once a revoke has returned true, the auth list of the user holds no
\* entry with the jti of the token it was given.
C34_RevokedStaysOut ==
    \A p \in Procs :
        (proc[p].op = "logout" /\ proc[p].pc = "done" /\ proc[p].status) =>
            \A i \in 1..Len(authList[proc[p].tok.sub]) :
                authList[proc[p].tok.sub][i][1] # proc[p].tok.jti

\* C35: a rotate that ends in a cache error or a lock error leaves the auth
\* list as it was: with no other call under way or done, the entry of the
\* session it was given is still listed.
C35_FailedRotateKeepsEntry ==
    \A p \in Procs :
        ( /\ proc[p].op = "refresh" /\ proc[p].pc = "done"
          /\ proc[p].exc \in {"error", "lock"}
          /\ \A q \in Procs \ {p} : proc[q].pc = "idle"
          /\ <<proc[p].tok, proc[p].fp>> \in known ) =>
            InList(authList[proc[p].tok.sub],
                   _get_hashed_pair(proc[p].tok, proc[p].fp, proc[p].tok))

\* the auth list of u holds at most one entry per jti
OnePerJti(u) ==
    \A i, j \in 1..Len(authList[u]) : i # j => authList[u][i][1] # authList[u][j][1]

\* every entry of the auth list of u is the hashed pair of a refresh token
\* that make_token or a successful rotate returned
AllReturned(u) ==
    \A i \in 1..Len(authList[u]) :
        \E k \in known : authList[u][i] = _get_hashed_pair(k[1], k[2], k[1])

\* C36: in every reachable state the auth list holds at most one entry per
\* jti and, once no call is under way, only entries of returned refresh tokens.
C36_ListWellFormed ==
    \A u \in Users : OnePerJti(u) /\ ((\A p \in Procs : ~InCall(p)) => AllReturned(u))

\* the rotate of p took the replay branch: delete(key)
Purged(p) ==
    /\ proc[p].op = "refresh"
    /\ proc[p].pc \in {"release", "done"}
    /\ proc[p].newTok = BadToken
    /\ proc[p].exc \notin {"scheme", "verify", "typ"}

\* C37: the entry of a session that was neither rotated nor revoked, in a list
\* that was not purged, is listed as long as the session's refresh token has
\* not expired, whatever key expiry a rotate of another session has set.
C37_EntryOutlivesForeignExpiry ==
    \A k \in known :
        ( /\ verify(k[1], now)
          /\ \A p \in Procs :
                proc[p].pc = "idle" \/ (proc[p].tok.jti # k[1].jti /\ ~Purged(p)) ) =>
            InList(authList[k[1].sub], _get_hashed_pair(k[1], k[2], k[1]))

\* the catalog holds the permission and the fields of every rule
Registered_All ==
    \A i \in 1..Len(Rules) :
        /\ \E n \in 1..Len(catalog.permission) : catalog.permission[n] = Rules[i].key
        /\ \A j \in 1..Len(Rules[i].fields) :
              \E n \in 1..Len(catalog.permission_field) :
                  catalog.permission_field[n] =
                      <<Rules[i].key, Rules[i].fields[j][1], Rules[i].fields[j][2]>>

\* C38: whenever the create_rules marker is present and no worker is between
\* setting it and the end of _create, the catalog holds every declared
\* permission and field.
C38_MarkerMeansRegistered ==
    (MarkerPresent /\ \A w \in Workers : worker[w].pc # "create") => Registered_All

\* C39: while the outer scope of a manager is open, a nested scope left inside
\* it has neither told the connection to commit or roll back nor released
\* the connection.
C39_NestedLeavesOuterOpen ==
    tm.pc = "open" => (tm.ended = "none" /\ ~tm.released /\ (tm.call.was > 0 => in_transaction))

====
